---------------------------- MODULE Spec2Model ----------------------------
(***************************************************************************)
(* A model of the SQL tokenizer (tokenizer.rs) and of the Pratt / SQL      *)
(* parser (parser.rs).                                                     *)
(*                                                                         *)
(* A character is a one-character string, an input text a sequence of      *)
(* characters.  Identifier and string-literal texts are TLA+ strings built *)
(* with \o.  A u64 is kept as its canonical sequence of decimal digits     *)
(* (no leading zero), so that the 64-bit range can be stated.              *)
(***************************************************************************)
EXTENDS Integers, Sequences, FiniteSets, TLC

VARIABLES
    input,          \* the text handed to Parser::new
    pos,            \* Tokenizer.input: index of the next character (peek)
    tokens,         \* tokenize's local `tokens` vector
    lexResult,      \* what tokenize returned (Pending while it runs)
    parserTokens,   \* Parser.tokens, the vector the parser iterates over
    result,         \* what Parser::parse returned (Pending before)
    pc,             \* "scan", "lexed", "panicked", "parser", "parsed",
                    \* and main's "prompt", "read", "exited"
    stdin,          \* the lines main has still to read
    stdout          \* what main printed last

vars == <<input, pos, tokens, lexResult, parserTokens, result, pc,
          stdin, stdout>>

---------------------------------------------------------------------------
(* Characters (tokenizer.rs, the match of tokenize).                       *)

Upper == <<"A","B","C","D","E","F","G","H","I","J","K","L","M",
           "N","O","P","Q","R","S","T","U","V","W","X","Y","Z">>
Lower == <<"a","b","c","d","e","f","g","h","i","j","k","l","m",
           "n","o","p","q","r","s","t","u","v","w","x","y","z">>
DigitChars == <<"0","1","2","3","4","5","6","7","8","9">>

Range(s) == {s[i] : i \in DOMAIN s}

Whitespace == {" ", "\t", "\n"}
Quotes == {"\"", "'"}
Backslash == "\\"
Digits == Range(DigitChars)
Letters == Range(Upper) \cup Range(Lower)
IdentStart == Letters \cup {"_"}

\* char::is_digit(10)
IsDigit(c) == c \in Digits
\* char::is_alphabetic, on the ASCII characters of the model
IsAlphabetic(c) == c \in Letters
\* the value of a decimal digit
DigitValue(c) == (CHOOSE i \in DOMAIN DigitChars : DigitChars[i] = c) - 1
\* char::to_lowercase
LowerChar(c) ==
    IF \E i \in DOMAIN Upper : Upper[i] = c
    THEN Lower[CHOOSE i \in DOMAIN Upper : Upper[i] = c]
    ELSE c

\* No character: what peek_char / next_char give at the end of the input.
NoChar == ""
PeekAt(text, p) == IF p <= Len(text) THEN text[p] ELSE NoChar

---------------------------------------------------------------------------
(* Tokens (token.rs).                                                      *)

Tok(t, v) == [type |-> t, val |-> v]
KeywordTok(k) == Tok("Keyword", k)
IdentifierTok(s) == Tok("Identifier", s)
StringTok(s) == Tok("String", s)
NumberTok(n) == Tok("Number", n)
Punct(t) == Tok(t, "")
Eof == Punct("Eof")
\* Option::None of current_token()
NoToken == Punct("None")

\* The keyword table of tokenize: the case-folded text and the Keyword.
KeywordTable ==
    << <<"select", "Select">>, <<"from", "From">>, <<"where", "Where">>,
       <<"order", "Order">>, <<"by", "By">>, <<"create", "Create">>,
       <<"table", "Table">>, <<"int", "Int">>, <<"varchar", "Varchar">>,
       <<"bool", "Bool">>, <<"primary", "Primary">>, <<"key", "Key">>,
       <<"not", "Not">>, <<"null", "Null">>, <<"check", "Check">>,
       <<"true", "True">>, <<"false", "False">>, <<"and", "And">>,
       <<"or", "Or">>, <<"asc", "Asc">>, <<"desc", "Desc">> >>

\* The mutant of WordToken that looks the word up as it is written.
WordTokenCaseSensitive(ident, ident_lower) ==
    IF \E i \in DOMAIN KeywordTable : KeywordTable[i][1] = ident
    THEN KeywordTok(KeywordTable[CHOOSE i \in DOMAIN KeywordTable :
                                     KeywordTable[i][1] = ident][2])
    ELSE IdentifierTok(ident)

\* The token of an identifier-like run: ident as written, ident_lower folded.
WordToken(ident, ident_lower) ==
    IF \E i \in DOMAIN KeywordTable : KeywordTable[i][1] = ident_lower
    THEN KeywordTok(KeywordTable[CHOOSE i \in DOMAIN KeywordTable :
                                     KeywordTable[i][1] = ident_lower][2])
    ELSE IdentifierTok(ident)

---------------------------------------------------------------------------
(* u64 values as canonical digit sequences.                                *)

\* u64::MAX = 18446744073709551615
U64MaxDigits == <<1,8,4,4,6,7,4,4,0,7,3,7,0,9,5,5,1,6,1,5>>

RECURSIVE StripZeros(_)
StripZeros(ds) ==
    IF Len(ds) > 1 /\ ds[1] = 0 THEN StripZeros(Tail(ds)) ELSE ds

RECURSIVE DigitsLess(_, _)
\* a < b for digit sequences of the same length
DigitsLess(a, b) ==
    IF a = <<>> THEN FALSE
    ELSE IF a[1] /= b[1] THEN a[1] < b[1]
    ELSE DigitsLess(Tail(a), Tail(b))

\* a <= b for canonical digit sequences
NumLeq(a, b) ==
    \/ Len(a) < Len(b)
    \/ Len(a) = Len(b) /\ (a = b \/ DigitsLess(a, b))

\* str::parse::<u64>: Ok(canonical digits) or Err on overflow
ParseU64(ds) ==
    LET n == StripZeros(ds)
    IN  IF NumLeq(n, U64MaxDigits) THEN [ok |-> TRUE, val |-> n]
        ELSE [ok |-> FALSE, val |-> <<>>]

---------------------------------------------------------------------------
(* The tokenizer (tokenizer.rs).                                           *)

UnterminatedString == [err |-> "UnterminatedString", ch |-> ""]
UnexpectedChar(c) == [err |-> "UnexpectedChar", ch |-> c]
NoLexError == [err |-> "", ch |-> ""]

\* The outcome of one iteration of tokenize's outer loop:
\* kind "skip" (whitespace), "token", "error" (return Err), "panic" (unwrap).
Skip(p) == [kind |-> "skip", tok |-> NoToken, err |-> NoLexError, pos |-> p]
Emit(t, p) == [kind |-> "token", tok |-> t, err |-> NoLexError, pos |-> p]
Fail(e, p) == [kind |-> "error", tok |-> NoToken, err |-> e, pos |-> p]
Panic(p) == [kind |-> "panic", tok |-> NoToken, err |-> NoLexError, pos |-> p]

RECURSIVE ScanStringBody(_, _, _, _)
\* The inner loop of the string arm, entered after the opening quote:
\* p is the next character, string the text collected so far.
\* escapeAtEnd: the input ended right after a backslash (return Err).
ScanStringBody(text, p, quote, string) ==
    IF p > Len(text)
    THEN [escapeAtEnd |-> FALSE, string |-> string, pos |-> p]
    ELSE LET c == text[p]
         IN  IF c = quote
             THEN [escapeAtEnd |-> FALSE, string |-> string, pos |-> p + 1]
             ELSE IF c = Backslash
             THEN IF p + 1 > Len(text)
                  THEN [escapeAtEnd |-> TRUE, string |-> string, pos |-> p + 1]
                  ELSE ScanStringBody(text, p + 2, quote, string \o text[p + 1])
             ELSE ScanStringBody(text, p + 1, quote, string \o c)

\* The arm '"' | '\'' of tokenize.
ScanString(text, p) ==
    LET body == ScanStringBody(text, p + 1, text[p], "")
    IN  IF body.escapeAtEnd THEN Fail(UnterminatedString, body.pos)
        ELSE IF PeekAt(text, body.pos) = NoChar /\ body.string = ""
        THEN Fail(UnterminatedString, body.pos)
        ELSE Emit(StringTok(body.string), body.pos)

RECURSIVE DigitRunEnd(_, _)
\* The position after the maximal run of digits starting at p.
DigitRunEnd(text, p) ==
    IF p <= Len(text) /\ IsDigit(text[p]) THEN DigitRunEnd(text, p + 1) ELSE p

\* The arm '0'..='9' of tokenize: num.parse::<u64>().unwrap()
ScanNumber(text, p) ==
    LET e == DigitRunEnd(text, p)
        number == ParseU64([i \in 1..(e - p) |-> DigitValue(text[p + i - 1])])
    IN  IF number.ok THEN Emit(NumberTok(number.val), e) ELSE Panic(e)

RECURSIVE WordRunEnd(_, _)
\* The position after the maximal run of letters, digits and '_' from p.
WordRunEnd(text, p) ==
    IF p <= Len(text)
       /\ (IsAlphabetic(text[p]) \/ IsDigit(text[p]) \/ text[p] = "_")
    THEN WordRunEnd(text, p + 1) ELSE p

RECURSIVE Concat(_, _, _)
\* The string of the characters text[p .. e-1].
Concat(text, p, e) ==
    IF p >= e THEN "" ELSE text[p] \o Concat(text, p + 1, e)

RECURSIVE ConcatLower(_, _, _)
\* String::to_lowercase of the characters text[p .. e-1].
ConcatLower(text, p, e) ==
    IF p >= e THEN "" ELSE LowerChar(text[p]) \o ConcatLower(text, p + 1, e)

\* The arm 'a'..='z' | 'A'..='Z' | '_' of tokenize.
ScanWord(text, p) ==
    LET e == WordRunEnd(text, p)
    IN  Emit(WordToken(Concat(text, p, e), ConcatLower(text, p, e)), e)

\* The mutant of ScanCompare that does not look ahead.
ScanCompareNoLookahead(text, p) ==
    CASE text[p] = ">" -> Emit(Punct("GreaterThan"), p + 1)
      [] text[p] = "<" -> Emit(Punct("LessThan"), p + 1)
      [] text[p] = "!" -> Fail(UnexpectedChar("!"), p + 1)

\* The arms '>' '<' '!': one character of lookahead for a trailing '='.
ScanCompare(text, p) ==
    LET c == text[p]
        eq == PeekAt(text, p + 1) = "="
    IN  CASE c = ">" -> IF eq THEN Emit(Punct("GreaterThanOrEqual"), p + 2)
                        ELSE Emit(Punct("GreaterThan"), p + 1)
          [] c = "<" -> IF eq THEN Emit(Punct("LessThanOrEqual"), p + 2)
                        ELSE Emit(Punct("LessThan"), p + 1)
          [] c = "!" -> IF eq THEN Emit(Punct("NotEqual"), p + 2)
                        ELSE Fail(UnexpectedChar("!"), p + 1)

\* One iteration of `while let Some(&c) = self.peek_char()`, p <= Len(text).
ScanOne(text, p) ==
    LET c == text[p]
    IN  CASE c \in Whitespace -> Skip(p + 1)
          [] c = "(" -> Emit(Punct("LeftParentheses"), p + 1)
          [] c = ")" -> Emit(Punct("RightParentheses"), p + 1)
          [] c = "," -> Emit(Punct("Comma"), p + 1)
          [] c = ";" -> Emit(Punct("Semicolon"), p + 1)
          [] c = "+" -> Emit(Punct("Plus"), p + 1)
          [] c = "-" -> Emit(Punct("Minus"), p + 1)
          [] c = "*" -> Emit(Punct("Star"), p + 1)
          [] c = "/" -> Emit(Punct("Divide"), p + 1)
          [] c = "=" -> Emit(Punct("Equal"), p + 1)
          [] c \in {">", "<", "!"} -> ScanCompare(text, p)
          [] c \in Quotes -> ScanString(text, p)
          [] c \in Digits -> ScanNumber(text, p)
          [] c \in IdentStart -> ScanWord(text, p)
          [] OTHER -> Fail(UnexpectedChar(c), p + 1)

\* Nothing printed: Parser::new called without main.
NoOutput == ""

\* Result<Vec<Token>, TokenizerError>, and the value before tokenize returns.
LexOk(ts) == [status |-> "Ok", tokens |-> ts, err |-> NoLexError]
LexErr(e) == [status |-> "Err", tokens |-> <<>>, err |-> e]
LexPending == [status |-> "Pending", tokens |-> <<>>, err |-> NoLexError]


---------------------------------------------------------------------------
(* The AST (statement.rs).                                                 *)

NumberExpr(n) == [kind |-> "Number", val |-> n]
StringExpr(s) == [kind |-> "String", val |-> s]
BoolExpr(b) == [kind |-> "Bool", val |-> b]
IdentifierExpr(s) == [kind |-> "Identifier", val |-> s]
BinaryOperation(l, op, r) ==
    [kind |-> "BinaryOperation", left_operand |-> l, operator |-> op,
     right_operand |-> r]
UnaryOperation(op, e) ==
    [kind |-> "UnaryOperation", operator |-> op, operand |-> e]

\* Option<Expression>
None == [some |-> FALSE]
Some(e) == [some |-> TRUE, val |-> e]

Select(columns, from, where, orderby) ==
    [stmt |-> "Select", columns |-> columns, from |-> from,
     where |-> where, orderby |-> orderby]
SelectAll(from, where, orderby) ==
    [stmt |-> "SelectAll", from |-> from, where |-> where,
     orderby |-> orderby]
CreateTable(table_name, column_list) ==
    [stmt |-> "CreateTable", table_name |-> table_name,
     column_list |-> column_list]
TableColumn(name, type, constraints) ==
    [column_name |-> name, column_type |-> type, constraints |-> constraints]

\* DBType
DBInt == [type |-> "Int", len |-> <<>>]
DBBool == [type |-> "Bool", len |-> <<>>]
DBVarchar(n) == [type |-> "Varchar", len |-> n]

\* Constraint
PrimaryKey == [constraint |-> "PrimaryKey"]
NotNull == [constraint |-> "NotNull"]
Check(e) == [constraint |-> "Check", expr |-> e]

---------------------------------------------------------------------------
(* The parser (parser.rs).  The Peekable token iterator is the token       *)
(* vector toks and a cursor p; every rule returns its Result and the       *)
(* cursor it leaves.                                                       *)

\* ParseError
UnexpectedToken(t) == [err |-> "UnexpectedToken", token |-> t]
InvalidVarcharLength == [err |-> "InvalidVarcharLength", token |-> NoToken]
InvalidColumnType == [err |-> "InvalidColumnType", token |-> NoToken]

POk(v, p) == [ok |-> TRUE, val |-> v, pos |-> p]
PErr(e, p) == [ok |-> FALSE, val |-> e, pos |-> p]

\* The `?` operator: an Err returns at once, an Ok value goes on into Rest.
Try(r, Rest(_)) == IF r.ok THEN Rest(r) ELSE r

\* Parser::current_token: peek
CurrentToken(toks, p) == IF p <= Len(toks) THEN toks[p] ELSE NoToken

\* self.current_token().cloned().unwrap_or(Token::Eof)
ActualToken(toks, p) ==
    IF CurrentToken(toks, p) = NoToken THEN Eof ELSE CurrentToken(toks, p)

\* Parser::advance: Iterator::next, which stays at the end once exhausted
Advance(toks, p) == IF p <= Len(toks) THEN p + 1 ELSE p

\* The mutant of ExpectToken that reports success without advancing.
ExpectTokenNoAdvance(toks, p, expected) ==
    IF CurrentToken(toks, p) = expected
    THEN POk(TRUE, p)
    ELSE PErr(UnexpectedToken(ActualToken(toks, p)), p)

\* Parser::expect_token
ExpectToken(toks, p, expected) ==
    IF CurrentToken(toks, p) = expected
    THEN POk(TRUE, Advance(toks, p))
    ELSE PErr(UnexpectedToken(ActualToken(toks, p)), p)

\* Parser::parse_identifier
ParseIdentifier(toks, p) ==
    IF CurrentToken(toks, p).type = "Identifier"
    THEN POk(CurrentToken(toks, p).val, Advance(toks, p))
    ELSE PErr(UnexpectedToken(ActualToken(toks, p)), p)

\* The mutant of GetPrecedence that gives '*' and '/' the precedence of '+'.
GetPrecedenceFlat(token) ==
    CASE token = KeywordTok("Or") -> 10
      [] token = KeywordTok("And") -> 20
      [] token.type \in {"Equal", "NotEqual", "GreaterThan",
                         "GreaterThanOrEqual", "LessThan",
                         "LessThanOrEqual"} -> 30
      [] token.type \in {"Plus", "Minus", "Star", "Divide"} -> 50
      [] OTHER -> 0

\* Parser::get_precedence
GetPrecedence(token) ==
    CASE token = KeywordTok("Or") -> 10
      [] token = KeywordTok("And") -> 20
      [] token.type \in {"Equal", "NotEqual", "GreaterThan",
                         "GreaterThanOrEqual", "LessThan",
                         "LessThanOrEqual"} -> 30
      [] token.type \in {"Plus", "Minus"} -> 50
      [] token.type \in {"Star", "Divide"} -> 60
      [] OTHER -> 0

\* The arms of parse_infix: the infix tokens and their BinaryOperator.
InfixTable ==
    << <<Punct("Plus"), "Plus">>, <<Punct("Minus"), "Minus">>,
       <<Punct("Star"), "Multiply">>, <<Punct("Divide"), "Divide">>,
       <<Punct("GreaterThan"), "GreaterThan">>,
       <<Punct("GreaterThanOrEqual"), "GreaterThanOrEqual">>,
       <<Punct("LessThan"), "LessThan">>,
       <<Punct("LessThanOrEqual"), "LessThanOrEqual">>,
       <<Punct("Equal"), "Equal">>, <<Punct("NotEqual"), "NotEqual">>,
       <<KeywordTok("And"), "And">>, <<KeywordTok("Or"), "Or">> >>

IsInfixToken(t) == \E i \in DOMAIN InfixTable : InfixTable[i][1] = t
BinaryOperatorOf(t) ==
    InfixTable[CHOOSE i \in DOMAIN InfixTable : InfixTable[i][1] = t][2]

\* The precedence parse_prefix gives the operand of a unary '+', '-', NOT.
UnaryPrecedence == 80

RECURSIVE ParseExpression(_, _, _)
RECURSIVE ParsePrefix(_, _)
RECURSIVE ParseInfix(_, _, _, _)
RECURSIVE ParseExpressionLoop(_, _, _, _)

\* The mutant of ParseParenthesized that leaves the ')' unconsumed.
ParseParenthesizedOpen(toks, p) ==
    ParseExpression(toks, Advance(toks, p), 0)

\* The arm Token::LeftParentheses of parse_prefix.
ParseParenthesized(toks, p) ==
    Try(ParseExpression(toks, Advance(toks, p), 0), LAMBDA expr :
    Try(ExpectToken(toks, expr.pos, Punct("RightParentheses")), LAMBDA close :
        POk(expr.val, close.pos)))

\* The mutant of ParseUnary that parses the operand at the lowest precedence.
ParseUnaryLoose(toks, p, operator) ==
    Try(ParseExpression(toks, Advance(toks, p), 0), LAMBDA expr :
        POk(UnaryOperation(operator, expr.val), expr.pos))

\* The arms Token::Minus, Token::Plus, Keyword::Not of parse_prefix.
ParseUnary(toks, p, operator) ==
    Try(ParseExpression(toks, Advance(toks, p), UnaryPrecedence), LAMBDA expr :
        POk(UnaryOperation(operator, expr.val), expr.pos))

\* Parser::parse_prefix
ParsePrefix(toks, p) ==
    LET t == CurrentToken(toks, p)
    IN  CASE t.type = "Number" -> POk(NumberExpr(t.val), Advance(toks, p))
          [] t.type = "String" -> POk(StringExpr(t.val), Advance(toks, p))
          [] t.type = "Identifier" ->
                POk(IdentifierExpr(t.val), Advance(toks, p))
          [] t = KeywordTok("True") -> POk(BoolExpr(TRUE), Advance(toks, p))
          [] t = KeywordTok("False") -> POk(BoolExpr(FALSE), Advance(toks, p))
          [] t.type = "LeftParentheses" -> ParseParenthesized(toks, p)
          [] t.type = "Minus" -> ParseUnary(toks, p, "Minus")
          [] t.type = "Plus" -> ParseUnary(toks, p, "Plus")
          [] t = KeywordTok("Not") -> ParseUnary(toks, p, "Not")
          [] OTHER -> PErr(UnexpectedToken(ActualToken(toks, p)), p)

\* The mutant of ParseInfix that parses the right operand one precedence
\* class lower, which makes equal-precedence operators associate to the right.
ParseInfixLower(toks, p, left, precedence) ==
    LET t == CurrentToken(toks, p)
    IN  IF IsInfixToken(t)
        THEN Try(ParseExpression(toks, Advance(toks, p), precedence - 10),
                 LAMBDA right :
                 POk(BinaryOperation(left, BinaryOperatorOf(t), right.val),
                     right.pos))
        ELSE PErr(UnexpectedToken(ActualToken(toks, p)), p)

\* Parser::parse_infix: its twelve arms differ in the operator alone.
ParseInfix(toks, p, left, precedence) ==
    LET t == CurrentToken(toks, p)
    IN  IF IsInfixToken(t)
        THEN Try(ParseExpression(toks, Advance(toks, p), precedence),
                 LAMBDA right :
                 POk(BinaryOperation(left, BinaryOperatorOf(t), right.val),
                     right.pos))
        ELSE PErr(UnexpectedToken(ActualToken(toks, p)), p)

\* The while loop of parse_expression.
ParseExpressionLoop(toks, p, left, precedence) ==
    IF CurrentToken(toks, p) = NoToken THEN POk(left, p)
    ELSE LET next_precedence == GetPrecedence(ActualToken(toks, p))
         IN  IF next_precedence <= precedence THEN POk(left, p)
             ELSE Try(ParseInfix(toks, p, left, next_precedence),
                      LAMBDA r :
                      ParseExpressionLoop(toks, r.pos, r.val, precedence))

\* Parser::parse_expression
ParseExpression(toks, p, precedence) ==
    Try(ParsePrefix(toks, p), LAMBDA prefix :
    Try(ParseExpressionLoop(toks, prefix.pos, prefix.val, precedence),
        LAMBDA left :
        IF CurrentToken(toks, left.pos) = KeywordTok("Asc")
        THEN POk(UnaryOperation("Asc", left.val), Advance(toks, left.pos))
        ELSE IF CurrentToken(toks, left.pos) = KeywordTok("Desc")
        THEN POk(UnaryOperation("Desc", left.val), Advance(toks, left.pos))
        ELSE left))

RECURSIVE ParseExpressionList(_, _, _)

\* The mutant of ParseExpressionList that puts each expression before the
\* ones parsed so far.
ParseExpressionListReversed(toks, p, list) ==
    Try(ParseExpression(toks, p, 0), LAMBDA expr :
        IF CurrentToken(toks, expr.pos) = Punct("Comma")
        THEN ParseExpressionList(toks, Advance(toks, expr.pos),
                                 <<expr.val>> \o list)
        ELSE POk(<<expr.val>> \o list, expr.pos))

\* The mutant of ParseExpressionList that lets the list end after a comma.
ParseExpressionListLax(toks, p, list) ==
    IF list /= <<>> /\ CurrentToken(toks, p) = KeywordTok("From")
    THEN POk(list, p)
    ELSE Try(ParseExpression(toks, p, 0), LAMBDA expr :
             IF CurrentToken(toks, expr.pos) = Punct("Comma")
             THEN ParseExpressionList(toks, Advance(toks, expr.pos),
                                      Append(list, expr.val))
             ELSE POk(Append(list, expr.val), expr.pos))

\* The loops of parse_select over comma-separated expressions:
\* parse one, push it, go on after a comma.
ParseExpressionList(toks, p, list) ==
    Try(ParseExpression(toks, p, 0), LAMBDA expr :
        IF CurrentToken(toks, expr.pos) = Punct("Comma")
        THEN ParseExpressionList(toks, Advance(toks, expr.pos),
                                 Append(list, expr.val))
        ELSE POk(Append(list, expr.val), expr.pos))

\* The optional WHERE clause of parse_select.
ParseWhere(toks, p) ==
    IF CurrentToken(toks, p) = KeywordTok("Where")
    THEN Try(ParseExpression(toks, Advance(toks, p), 0),
             LAMBDA expr : POk(Some(expr.val), expr.pos))
    ELSE POk(None, p)

\* The optional ORDER BY clause of parse_select.
ParseOrderBy(toks, p) ==
    IF CurrentToken(toks, p) = KeywordTok("Order")
    THEN Try(ExpectToken(toks, Advance(toks, p), KeywordTok("By")),
             LAMBDA by : ParseExpressionList(toks, by.pos, <<>>))
    ELSE POk(<<>>, p)

\* The terminating semicolon of a statement.
ParseSemicolon(toks, p) ==
    IF CurrentToken(toks, p) /= Punct("Semicolon")
    THEN PErr(UnexpectedToken(ActualToken(toks, p)), p)
    ELSE POk(TRUE, Advance(toks, p))

\* The mutant of ParseSelectFrom for which the FROM clause is optional.
ParseSelectFromOptional(toks, p, star, columns) ==
    Try(IF CurrentToken(toks, p) = KeywordTok("From")
        THEN ParseIdentifier(toks, Advance(toks, p))
        ELSE POk("", p), LAMBDA from :
    Try(ParseWhere(toks, from.pos), LAMBDA where :
    Try(ParseOrderBy(toks, where.pos), LAMBDA orderby :
    Try(ParseSemicolon(toks, orderby.pos), LAMBDA semi :
        IF star
        THEN POk(SelectAll(from.val, where.val, orderby.val), semi.pos)
        ELSE POk(Select(columns, from.val, where.val, orderby.val),
                 semi.pos)))))

\* parse_select from the FROM clause on: FROM, the table, WHERE, ORDER BY, ';'.
\* columns is <<>> together with star = TRUE for SELECT *.
ParseSelectFrom(toks, p, star, columns) ==
    Try(ExpectToken(toks, p, KeywordTok("From")), LAMBDA kw :
    Try(ParseIdentifier(toks, kw.pos), LAMBDA from :
    Try(ParseWhere(toks, from.pos), LAMBDA where :
    Try(ParseOrderBy(toks, where.pos), LAMBDA orderby :
    Try(ParseSemicolon(toks, orderby.pos), LAMBDA semi :
        IF star
        THEN POk(SelectAll(from.val, where.val, orderby.val), semi.pos)
        ELSE POk(Select(columns, from.val, where.val, orderby.val),
                 semi.pos))))))

\* The mutant of ParseSelect that returns SELECT * as a Select without
\* columns.
ParseSelectStarAsColumns(toks, p) ==
    IF CurrentToken(toks, p) = Punct("Star")
    THEN ParseSelectFrom(toks, Advance(toks, p), FALSE, <<>>)
    ELSE IF CurrentToken(toks, p) = KeywordTok("From")
    THEN PErr(UnexpectedToken(KeywordTok("From")), p)
    ELSE Try(ParseExpressionList(toks, p, <<>>), LAMBDA columns :
             ParseSelectFrom(toks, columns.pos, FALSE, columns.val))

\* Parser::parse_select
ParseSelect(toks, p) ==
    IF CurrentToken(toks, p) = Punct("Star")
    THEN ParseSelectFrom(toks, Advance(toks, p), TRUE, <<>>)
    ELSE IF CurrentToken(toks, p) = KeywordTok("From")
    THEN PErr(UnexpectedToken(KeywordTok("From")), p)
    ELSE Try(ParseExpressionList(toks, p, <<>>), LAMBDA columns :
             ParseSelectFrom(toks, columns.pos, FALSE, columns.val))

\* The largest VARCHAR length: 65535
MaxVarcharDigits == <<6,5,5,3,5>>

\* The mutant of ParseVarcharLength whose upper bound is off by one.
ParseVarcharLengthLoose(toks, p) ==
    LET t == CurrentToken(toks, p)
    IN  IF t.type /= "Number"
        THEN PErr(UnexpectedToken(ActualToken(toks, p)), p)
        ELSE IF t.val = <<0>> \/ ~NumLeq(t.val, <<6,5,5,3,6>>)
        THEN PErr(InvalidVarcharLength, p)
        ELSE POk(t.val, Advance(toks, p))

\* The length of VARCHAR(len), at the token after the '('.
ParseVarcharLength(toks, p) ==
    LET t == CurrentToken(toks, p)
    IN  IF t.type /= "Number"
        THEN PErr(UnexpectedToken(ActualToken(toks, p)), p)
        ELSE IF t.val = <<0>> \/ ~NumLeq(t.val, MaxVarcharDigits)
        THEN PErr(InvalidVarcharLength, p)
        ELSE POk(t.val, Advance(toks, p))

\* The arm Keyword::Varchar of parse_create_table, at the token after VARCHAR.
ParseVarchar(toks, p) ==
    Try(ExpectToken(toks, p, Punct("LeftParentheses")), LAMBDA open :
    Try(ParseVarcharLength(toks, open.pos), LAMBDA len :
    Try(ExpectToken(toks, len.pos, Punct("RightParentheses")), LAMBDA close :
        POk(DBVarchar(len.val), close.pos))))

\* The mutant of ParseColumnType that reports a wrong type as a wrong token.
ParseColumnTypeLax(toks, p) ==
    LET t == CurrentToken(toks, p)
    IN  CASE t = KeywordTok("Int") -> POk(DBInt, Advance(toks, p))
          [] t = KeywordTok("Bool") -> POk(DBBool, Advance(toks, p))
          [] t = KeywordTok("Varchar") -> ParseVarchar(toks, Advance(toks, p))
          [] OTHER -> PErr(UnexpectedToken(ActualToken(toks, p)), p)

\* The column type of parse_create_table.
ParseColumnType(toks, p) ==
    LET t == CurrentToken(toks, p)
    IN  CASE t = KeywordTok("Int") -> POk(DBInt, Advance(toks, p))
          [] t = KeywordTok("Bool") -> POk(DBBool, Advance(toks, p))
          [] t = KeywordTok("Varchar") -> ParseVarchar(toks, Advance(toks, p))
          [] OTHER -> PErr(InvalidColumnType, p)

\* One constraint of a column, at its keyword PRIMARY, NOT or CHECK.
ParseConstraint(toks, p) ==
    LET t == CurrentToken(toks, p)
    IN  CASE t = KeywordTok("Primary") ->
                Try(ExpectToken(toks, Advance(toks, p), KeywordTok("Key")),
                    LAMBDA key : POk(PrimaryKey, key.pos))
          [] t = KeywordTok("Not") ->
                Try(ExpectToken(toks, Advance(toks, p), KeywordTok("Null")),
                    LAMBDA null : POk(NotNull, null.pos))
          [] t = KeywordTok("Check") ->
                Try(ExpectToken(toks, Advance(toks, p),
                                Punct("LeftParentheses")), LAMBDA open :
                Try(ParseExpression(toks, open.pos, 0), LAMBDA expr :
                Try(ExpectToken(toks, expr.pos, Punct("RightParentheses")),
                    LAMBDA close : POk(Check(expr.val), close.pos))))

IsConstraintKeyword(t) ==
    t \in {KeywordTok("Primary"), KeywordTok("Not"), KeywordTok("Check")}

RECURSIVE ParseConstraints(_, _, _)

\* The mutant of ParseConstraints that puts each constraint before the ones
\* parsed so far.
ParseConstraintsReversed(toks, p, constraints) ==
    IF IsConstraintKeyword(CurrentToken(toks, p))
    THEN Try(ParseConstraint(toks, p), LAMBDA c :
             ParseConstraints(toks, c.pos, <<c.val>> \o constraints))
    ELSE POk(constraints, p)

\* The constraint loop of parse_create_table.
ParseConstraints(toks, p, constraints) ==
    IF IsConstraintKeyword(CurrentToken(toks, p))
    THEN Try(ParseConstraint(toks, p), LAMBDA c :
             ParseConstraints(toks, c.pos, Append(constraints, c.val)))
    ELSE POk(constraints, p)

RECURSIVE ParseColumnList(_, _, _)
\* The column loop of parse_create_table.
ParseColumnList(toks, p, column_list) ==
    Try(ParseIdentifier(toks, p), LAMBDA column_name :
    Try(ParseColumnType(toks, column_name.pos), LAMBDA column_type :
    Try(ParseConstraints(toks, column_type.pos, <<>>), LAMBDA constraints :
        IF CurrentToken(toks, constraints.pos) = Punct("Comma")
        THEN ParseColumnList(toks, Advance(toks, constraints.pos),
                 Append(column_list,
                        TableColumn(column_name.val, column_type.val,
                                    constraints.val)))
        ELSE POk(Append(column_list,
                        TableColumn(column_name.val, column_type.val,
                                    constraints.val)),
                 constraints.pos))))

\* Parser::parse_create_table
ParseCreateTable(toks, p) ==
    Try(ExpectToken(toks, p, KeywordTok("Table")), LAMBDA table :
    Try(ParseIdentifier(toks, table.pos), LAMBDA table_name :
    Try(ExpectToken(toks, table_name.pos, Punct("LeftParentheses")),
        LAMBDA open :
    Try(ParseColumnList(toks, open.pos, <<>>), LAMBDA column_list :
    Try(ExpectToken(toks, column_list.pos, Punct("RightParentheses")),
        LAMBDA close :
    Try(ParseSemicolon(toks, close.pos), LAMBDA semi :
        POk(CreateTable(table_name.val, column_list.val), semi.pos)))))))

\* Parser::parse, on a parser whose cursor is at the first token
ParseStatement(toks) ==
    LET t == CurrentToken(toks, 1)
    IN  CASE t = KeywordTok("Select") -> ParseSelect(toks, Advance(toks, 1))
          [] t = KeywordTok("Create") ->
                ParseCreateTable(toks, Advance(toks, 1))
          [] OTHER -> PErr(UnexpectedToken(ActualToken(toks, 1)), 1)

\* The value of `result` before parse has returned.
Pending == [ok |-> FALSE, val |-> [err |-> "Pending", token |-> NoToken],
            pos |-> 0]


---------------------------------------------------------------------------
(* The whole of tokenize, as one function of the text.                     *)

RECURSIVE TokenizeFrom(_, _, _)
TokenizeFrom(text, p, ts) ==
    IF p > Len(text) THEN LexOk(Append(ts, Eof))
    ELSE LET s == ScanOne(text, p)
         IN  CASE s.kind = "skip" -> TokenizeFrom(text, s.pos, ts)
               [] s.kind = "token" ->
                     TokenizeFrom(text, s.pos, Append(ts, s.tok))
               [] s.kind = "error" -> LexErr(s.err)
               [] OTHER -> [status |-> "Panic", tokens |-> <<>>,
                            err |-> NoLexError]

\* Tokenizer::new(text).tokenize()
Tokenize(text) == TokenizeFrom(text, 1, <<>>)

\* tokenizer.tokenize().unwrap_or_else(|_| vec![Token::Eof]) of Parser::new
TokensOrEof(lexed) == IF lexed.status = "Ok" THEN lexed.tokens ELSE <<Eof>>

---------------------------------------------------------------------------
(* The input texts.                                                        *)

\* The longest tail of free characters appended to a text.
MaxTail == 3

\* The characters of the tails: quotes, backslash, a letter, a blank,
\* a character no rule accepts, '!' and '='.
TailAlphabet == {"\"", "'", "\\", "a", " ", "#", "!", "="}

\* the empty line: ""
EmptyText ==
    <<>>

\* a complete statement: "SELECT a FROM t;"
SelectText ==
    <<"S","E","L","E","C","T"," ","a"," ","F","R","O","M"," ","t",";">>

\* a statement up to the right operand of its WHERE predicate: "SELECT a FROM t WHERE b = "
WhereText ==
    <<"S","E","L","E","C","T"," ","a"," ","F","R","O","M"," ","t"," ","W","H","E","R","E"," ","b"," ","="," ">>

\* test_pratt_parser_precedence: "1 + 2 * 3;"
PrecedenceText ==
    <<"1"," ","+"," ","2"," ","*"," ","3",";">>

\* test_pratt_parser_parentheses: "(1 + 2) * 3;"
ParenthesesText ==
    <<"(","1"," ","+"," ","2",")"," ","*"," ","3",";">>

\* test_pratt_parser_unary_operation: "-5 + 6;"
UnaryText ==
    <<"-","5"," ","+"," ","6",";">>

\* u64::MAX + 1: "18446744073709551616"
OverflowText ==
    <<"1","8","4","4","6","7","4","4","0","7","3","7","0","9","5","5","1","6","1","6">>

Prefixes ==
    {EmptyText, SelectText, WhereText, PrecedenceText, ParenthesesText,
     UnaryText, OverflowText}

Tails == UNION {[1..n -> TailAlphabet] : n \in 0..MaxTail}

Inputs == {p \o t : p \in Prefixes, t \in Tails}

---------------------------------------------------------------------------
(* The state machine: Parser::new(input) runs the tokenizer, one iteration *)
(* of its loop at a time, and builds the parser; parse() then runs.        *)

Init ==
    /\ input \in Inputs
    /\ pos = 1
    /\ tokens = <<>>
    /\ lexResult = LexPending
    /\ parserTokens = <<>>
    /\ result = Pending
    /\ stdin = <<>>
    /\ stdout = NoOutput
    /\ pc = "scan"

\* An iteration of tokenize's loop that skips a whitespace character.
TokenizeSkip ==
    /\ pc = "scan" /\ pos <= Len(input)
    /\ ScanOne(input, pos).kind = "skip"
    /\ pos' = ScanOne(input, pos).pos
    /\ UNCHANGED <<input, tokens, lexResult, parserTokens, result, pc, stdin, stdout>>

\* An iteration of tokenize's loop that pushes a token.
TokenizePush ==
    /\ pc = "scan" /\ pos <= Len(input)
    /\ ScanOne(input, pos).kind = "token"
    /\ pos' = ScanOne(input, pos).pos
    /\ tokens' = Append(tokens, ScanOne(input, pos).tok)
    /\ UNCHANGED <<input, lexResult, parserTokens, result, pc, stdin, stdout>>

\* An iteration of tokenize's loop that returns Err; `tokens` is dropped
\* with the return, the model keeps what it held.
TokenizeError ==
    /\ pc = "scan" /\ pos <= Len(input)
    /\ ScanOne(input, pos).kind = "error"
    /\ pos' = ScanOne(input, pos).pos
    /\ lexResult' = LexErr(ScanOne(input, pos).err)
    /\ pc' = "lexed"
    /\ UNCHANGED <<input, tokens, parserTokens, result, stdin, stdout>>

\* An iteration of tokenize's loop whose unwrap() of parse::<u64> panics.
TokenizePanic ==
    /\ pc = "scan" /\ pos <= Len(input)
    /\ ScanOne(input, pos).kind = "panic"
    /\ pos' = ScanOne(input, pos).pos
    /\ pc' = "panicked"
    /\ UNCHANGED <<input, tokens, lexResult, parserTokens, result, stdin, stdout>>

\* The mutant of TokenizeEnd that returns the tokens without the Eof marker.
TokenizeEndNoEof ==
    /\ pc = "scan" /\ pos > Len(input)
    /\ tokens' = tokens
    /\ lexResult' = LexOk(tokens')
    /\ pc' = "lexed"
    /\ UNCHANGED <<input, pos, parserTokens, result, stdin, stdout>>

\* The end of tokenize's loop: push Eof, return Ok(tokens).
TokenizeEnd ==
    /\ pc = "scan" /\ pos > Len(input)
    /\ tokens' = Append(tokens, Eof)
    /\ lexResult' = LexOk(tokens')
    /\ pc' = "lexed"
    /\ UNCHANGED <<input, pos, parserTokens, result, stdin, stdout>>

\* The mutant of ParserNew that, on a lexical error, parses the tokens
\* scanned before the error.
ParserNewKeepsScanned ==
    /\ pc = "lexed"
    /\ parserTokens' = IF lexResult.status = "Ok" THEN lexResult.tokens
                       ELSE Append(tokens, Eof)
    /\ pc' = "parser"
    /\ UNCHANGED <<input, pos, tokens, lexResult, result, stdin, stdout>>

\* Parser::new, after tokenize has returned.
ParserNew ==
    /\ pc = "lexed"
    /\ parserTokens' = TokensOrEof(lexResult)
    /\ pc' = "parser"
    /\ UNCHANGED <<input, pos, tokens, lexResult, result, stdin, stdout>>

\* Parser::parse
Parse ==
    /\ pc = "parser"
    /\ result' = ParseStatement(parserTokens)
    /\ pc' = "parsed"
    /\ UNCHANGED <<input, pos, tokens, lexResult, parserTokens, stdin, stdout>>

Next ==
    \/ TokenizeSkip
    \/ TokenizePush
    \/ TokenizeError
    \/ TokenizePanic
    \/ TokenizeEnd
    \/ ParserNew
    \/ Parse

Spec == Init /\ [][Next]_vars


---------------------------------------------------------------------------
(* Expressions as inputs: a statement around one expression, given as the  *)
(* tokens tokenize returns for its text.                                   *)

\* The most operands of a chain  x op x op ... x  of binary operators.
MaxChainOperands == 4
\* The most operands of a decorated expression, and the most decorations
\* (unary prefixes, parentheses, ASC / DESC) put on its operands.
MaxDecoratedOperands == 3
MaxDecorations == 2

\* The operands, in the order they are used, with their texts.
OperandTable ==
    << <<IdentifierTok("a"), <<"a">> >>, <<NumberTok(<<2>>), <<"2">> >>,
       <<IdentifierTok("c"), <<"c">> >>, <<NumberTok(<<4>>), <<"4">> >>,
       <<StringTok("e"), <<"'", "e", "'">> >>,
       <<KeywordTok("True"), <<"T", "R", "U", "E">> >> >>

\* The k-th operand of an expression (the table is reused past its end).
Operand(k) == OperandTable[((k - 1) % Len(OperandTable)) + 1][1]

\* The texts of the other tokens.
TokenTexts ==
    << <<KeywordTok("Select"), <<"S","E","L","E","C","T">>>>,
       <<KeywordTok("From"), <<"F","R","O","M">>>>,
       <<KeywordTok("Order"), <<"O","R","D","E","R">>>>,
       <<KeywordTok("By"), <<"B","Y">>>>,
       <<KeywordTok("And"), <<"A","N","D">>>>,
       <<KeywordTok("Or"), <<"O","R">>>>,
       <<KeywordTok("Not"), <<"N","O","T">>>>,
       <<KeywordTok("Asc"), <<"A","S","C">>>>,
       <<KeywordTok("Desc"), <<"D","E","S","C">>>>,
       <<Punct("Plus"), <<"+">>>>,
       <<Punct("Minus"), <<"-">>>>,
       <<Punct("Star"), <<"*">>>>,
       <<Punct("Divide"), <<"/">>>>,
       <<Punct("Equal"), <<"=">>>>,
       <<Punct("NotEqual"), <<"!","=">>>>,
       <<Punct("GreaterThan"), <<">">>>>,
       <<Punct("GreaterThanOrEqual"), <<">","=">>>>,
       <<Punct("LessThan"), <<"<">>>>,
       <<Punct("LessThanOrEqual"), <<"<","=">>>>,
       <<Punct("LeftParentheses"), <<"(">>>>,
       <<Punct("RightParentheses"), <<")">>>>,
       <<Punct("Comma"), <<",">>>>,
       <<Punct("Semicolon"), <<";">>>>,
       <<IdentifierTok("t"), <<"t">> >>, <<IdentifierTok("x"), <<"x">> >>,
       <<KeywordTok("Where"), <<"W","H","E","R","E">>>>,
       <<KeywordTok("Create"), <<"C","R","E","A","T","E">>>>,
       <<KeywordTok("Table"), <<"T","A","B","L","E">>>>,
       <<KeywordTok("Int"), <<"I","N","T">>>>,
       <<KeywordTok("Bool"), <<"B","O","O","L">>>>,
       <<KeywordTok("Varchar"), <<"V","A","R","C","H","A","R">>>>,
       <<KeywordTok("Primary"), <<"P","R","I","M","A","R","Y">>>>,
       <<KeywordTok("Key"), <<"K","E","Y">>>>,
       <<KeywordTok("Null"), <<"N","U","L","L">>>>,
       <<KeywordTok("Check"), <<"C","H","E","C","K">>>>,
       <<IdentifierTok("users"), <<"u","s","e","r","s">> >>,
       <<IdentifierTok("id"), <<"i","d">> >>,
       <<IdentifierTok("name"), <<"n","a","m","e">> >>,
       <<IdentifierTok("age"), <<"a","g","e">> >>,
       <<IdentifierTok("INVALID"), <<"I","N","V","A","L","I","D">> >> >>

TextOf(t) ==
    IF \E i \in DOMAIN OperandTable : OperandTable[i][1] = t
    THEN OperandTable[CHOOSE i \in DOMAIN OperandTable :
                          OperandTable[i][1] = t][2]
    ELSE IF t.type = "Number"
    THEN [i \in 1..Len(t.val) |-> DigitChars[t.val[i] + 1]]
    ELSE TokenTexts[CHOOSE i \in DOMAIN TokenTexts : TokenTexts[i][1] = t][2]

RECURSIVE Render(_)
\* The text of a token vector: the tokens' texts with a blank between.
Render(toks) ==
    IF toks = <<>> \/ toks = <<Eof>> THEN <<>>
    ELSE IF Len(toks) = 1 \/ Tail(toks) = <<Eof>> THEN TextOf(toks[1])
    ELSE TextOf(toks[1]) \o <<" ">> \o Render(Tail(toks))

\* The twelve binary operator tokens.
BinaryTokens == {InfixTable[i][1] : i \in DOMAIN InfixTable}

\* x op1 x op2 ... x
Chain(ops) ==
    [i \in 1..(2 * Len(ops) + 1) |->
        IF i % 2 = 1 THEN Operand((i + 1) \div 2) ELSE ops[i \div 2]]

Chains ==
    {Chain(ops) : ops \in UNION {[1..n -> BinaryTokens] :
                                    n \in 1..(MaxChainOperands - 1)}}

\* What may stand before an operand and what may stand after it.
Prefixings ==
    {<<Punct("Minus")>>, <<Punct("Plus")>>, <<KeywordTok("Not")>>,
     <<Punct("LeftParentheses")>>, <<Punct("Minus"), Punct("Minus")>>}
Suffixings ==
    {<<Punct("RightParentheses")>>, <<KeywordTok("Asc")>>,
     <<KeywordTok("Desc")>>}

\* The binary operators of the decorated expressions, one of each class
\* but OR.
DecoratedOps ==
    {Punct("Plus"), Punct("Star"), KeywordTok("And"), Punct("Equal")}

\* A decoration: tokens before (side 0) or after (side 1) operand k.
Decorations(n) ==
    {<<k, 0, d>> : k \in 1..n, d \in Prefixings}
        \cup {<<k, 1, d>> : k \in 1..n, d \in Suffixings}

RECURSIVE DecorationSets(_, _)
\* The sets of at most m decorations of n operands, one to a place.
DecorationSets(n, m) ==
    IF m = 0 THEN {{}}
    ELSE LET smaller == DecorationSets(n, m - 1)
         IN  smaller \cup
             {ds \cup {d} : ds \in smaller, d \in Decorations(n)}

OnePerPlace(ds) ==
    \A d1, d2 \in ds : (d1[1] = d2[1] /\ d1[2] = d2[2]) => d1 = d2

DecorationAt(ds, k, side) ==
    IF \E d \in ds : d[1] = k /\ d[2] = side
    THEN (CHOOSE d \in ds : d[1] = k /\ d[2] = side)[3]
    ELSE <<>>

RECURSIVE Decorated(_, _, _)
\* The operands k.. of a chain, each with its decorations.
Decorated(ops, ds, k) ==
    DecorationAt(ds, k, 0) \o <<Operand(k)>> \o DecorationAt(ds, k, 1)
        \o (IF k > Len(ops) THEN <<>>
            ELSE <<ops[k]>> \o Decorated(ops, ds, k + 1))

DecoratedExpressions ==
    UNION {{Decorated(ops, ds, 1) :
               ops \in [1..(n - 1) -> DecoratedOps],
               ds \in {x \in DecorationSets(n, MaxDecorations) :
                          OnePerPlace(x)}} :
           n \in 1..MaxDecoratedOperands}

ExpressionBodies == Chains \cup DecoratedExpressions

\* SELECT <body> FROM t;
AsColumn(body) ==
    <<KeywordTok("Select")>> \o body
        \o <<KeywordTok("From"), IdentifierTok("t"), Punct("Semicolon"), Eof>>

\* SELECT x FROM t ORDER BY <body>;
OrderByHead ==
    <<KeywordTok("Select"), IdentifierTok("x"), KeywordTok("From"),
      IdentifierTok("t"), KeywordTok("Order"), KeywordTok("By")>>
AsOrderBy(body) == OrderByHead \o body \o <<Punct("Semicolon"), Eof>>

ExpressionInputs ==
    {AsColumn(b) : b \in ExpressionBodies}
        \cup {AsOrderBy(b) : b \in ExpressionBodies}

\* The state after Parser::new on the text of an expression input.
InitExpr ==
    /\ parserTokens \in ExpressionInputs
    /\ input = Render(parserTokens)
    /\ pos = Len(input) + 1
    /\ tokens = parserTokens
    /\ lexResult = LexOk(parserTokens)
    /\ result = Pending
    /\ stdin = <<>>
    /\ stdout = NoOutput
    /\ pc = "parser"

NextExpr == Parse

SpecExpr == InitExpr /\ [][NextExpr]_vars


---------------------------------------------------------------------------
(* Statements as inputs: CREATE TABLE and SELECT statements, well formed   *)
(* and not, given as the tokens tokenize returns for their texts.          *)

\* The most columns of a CREATE TABLE input, and of a SELECT column list.
MaxColumns == 2
MaxSelectColumns == 2

IsPrefix(pre, seq) ==
    Len(pre) <= Len(seq) /\ SubSeq(seq, 1, Len(pre)) = pre

RECURSIVE Join(_)
\* The token vectors of a list, with a comma between.
Join(list) ==
    IF list = <<>> THEN <<>>
    ELSE IF Len(list) = 1 THEN list[1]
    ELSE list[1] \o <<Punct("Comma")>> \o Join(Tail(list))

\* VARCHAR lengths inside 1..65535 and outside.
InRangeLengths == {<<1>>, <<5,0>>, <<6,5,5,3,5>>}
OutOfRangeLengths == {<<0>>, <<6,5,5,3,6>>, <<1,0,0,0,0,0>>, U64MaxDigits}

VarcharOf(n) ==
    <<KeywordTok("Varchar"), Punct("LeftParentheses"), NumberTok(n),
      Punct("RightParentheses")>>

\* Tokens that are no column type.
InvalidTypeTokens ==
    {IdentifierTok("INVALID"), NumberTok(<<5,0>>), KeywordTok("Table"),
     StringTok("e"), Punct("RightParentheses"), Punct("Comma")}

\* The column types, with the DBType each declares.
TypeTable ==
    << [tokens |-> <<KeywordTok("Int")>>, type |-> DBInt],
       [tokens |-> <<KeywordTok("Bool")>>, type |-> DBBool],
       [tokens |-> VarcharOf(<<1>>), type |-> DBVarchar(<<1>>)],
       [tokens |-> VarcharOf(<<5,0>>), type |-> DBVarchar(<<5,0>>)],
       [tokens |-> VarcharOf(<<6,5,5,3,5>>),
        type |-> DBVarchar(<<6,5,5,3,5>>)] >>
ValidTypes == {TypeTable[i].tokens : i \in DOMAIN TypeTable}
\* What may stand in the type position of a column.
TypeFragments ==
    ValidTypes
        \cup {VarcharOf(n) : n \in OutOfRangeLengths}
        \cup {<<t>> : t \in InvalidTypeTokens}
        \cup {<<KeywordTok("Varchar"), Punct("LeftParentheses"),
                IdentifierTok("id"), Punct("RightParentheses")>>}

\* The constraints of a column.
PrimaryKeyTokens == <<KeywordTok("Primary"), KeywordTok("Key")>>
NotNullTokens == <<KeywordTok("Not"), KeywordTok("Null")>>
CheckTokens ==
    <<KeywordTok("Check"), Punct("LeftParentheses"), IdentifierTok("age"),
      Punct("GreaterThan"), NumberTok(<<0>>), Punct("RightParentheses")>>
CheckAgePositive ==
    Check(BinaryOperation(IdentifierExpr("age"), "GreaterThan",
                          NumberExpr(<<0>>)))

\* The constraint runs of a column, with the constraints as written.
ConstraintTable ==
    << [tokens |-> <<>>, constraints |-> <<>>],
       [tokens |-> PrimaryKeyTokens, constraints |-> <<PrimaryKey>>],
       [tokens |-> NotNullTokens, constraints |-> <<NotNull>>],
       [tokens |-> CheckTokens, constraints |-> <<CheckAgePositive>>],
       [tokens |-> PrimaryKeyTokens \o NotNullTokens,
        constraints |-> <<PrimaryKey, NotNull>>],
       [tokens |-> NotNullTokens \o PrimaryKeyTokens,
        constraints |-> <<NotNull, PrimaryKey>>],
       [tokens |-> CheckTokens \o NotNullTokens,
        constraints |-> <<CheckAgePositive, NotNull>>] >>
ConstraintFragments ==
    {ConstraintTable[i].tokens : i \in DOMAIN ConstraintTable}

ColumnNames == <<IdentifierTok("id"), IdentifierTok("name"),
                 IdentifierTok("age")>>
ColumnName(k) == ColumnNames[((k - 1) % Len(ColumnNames)) + 1]

\* The first column: any type with any constraint.  The later columns:
\* any type, and INT with any constraint.
ColumnBodies(k) ==
    IF k = 1
    THEN {t \o c : t \in TypeFragments, c \in ConstraintFragments}
    ELSE TypeFragments
            \cup {<<KeywordTok("Int")>> \o c : c \in ConstraintFragments}

CreateHead ==
    <<KeywordTok("Create"), KeywordTok("Table"), IdentifierTok("users"),
      Punct("LeftParentheses")>>
CreateEnd == <<Punct("RightParentheses"), Punct("Semicolon"), Eof>>

RECURSIVE ColumnLists(_)
\* The column definitions 1..n, each <<name>> \o body.
ColumnLists(n) ==
    IF n = 0 THEN {<<>>}
    ELSE {Append(cs, <<ColumnName(n)>> \o b) :
             cs \in ColumnLists(n - 1), b \in ColumnBodies(n)}

CreateInputs ==
    {CreateHead \o Join(cs) \o CreateEnd :
        cs \in UNION {ColumnLists(n) : n \in 1..MaxColumns}}

\* The column expressions of the SELECT inputs, with what they parse to.
SelectItemTable ==
    << [tokens |-> <<IdentifierTok("id")>>, expr |-> IdentifierExpr("id")],
       [tokens |-> <<IdentifierTok("name")>>,
        expr |-> IdentifierExpr("name")],
       [tokens |-> <<IdentifierTok("age"), Punct("Plus"), NumberTok(<<2>>)>>,
        expr |-> BinaryOperation(IdentifierExpr("age"), "Plus",
                                 NumberExpr(<<2>>))] >>

\* The column lists: sequences of indices into SelectItemTable.
SelectLists ==
    UNION {[1..n -> DOMAIN SelectItemTable] : n \in 1..MaxSelectColumns}
ListTokens(list) ==
    Join([i \in DOMAIN list |-> SelectItemTable[list[i]].tokens])
ListExprs(list) == [i \in DOMAIN list |-> SelectItemTable[list[i]].expr]

\* What may stand between SELECT and the FROM clause.
ColumnParts ==
    {ListTokens(l) : l \in SelectLists}
        \cup {ListTokens(l) \o <<Punct("Comma")>> : l \in SelectLists}
        \cup {<<>>, <<Punct("Star")>>,
              <<Punct("Star"), Punct("Comma"), IdentifierTok("id")>>}

\* The FROM clause, and what may stand in its place.
GoodFrom == <<KeywordTok("From"), IdentifierTok("users")>>
BadFroms ==
    {<<>>, <<KeywordTok("From")>>, <<IdentifierTok("users")>>,
     <<KeywordTok("From"), NumberTok(<<2>>)>>}

\* The WHERE clauses, with the value of `where`.
WhereTable ==
    << [tokens |-> <<>>, where |-> None],
       [tokens |-> <<KeywordTok("Where"), IdentifierTok("age"),
                     Punct("GreaterThan"), NumberTok(<<1,8>>)>>,
        where |-> Some(BinaryOperation(IdentifierExpr("age"), "GreaterThan",
                                       NumberExpr(<<1,8>>)))] >>

\* The ORDER BY clauses, with the keys as written: k ASC is Unary(Asc, k).
OrderTable ==
    << [tokens |-> <<>>, orderby |-> <<>>],
       [tokens |-> <<KeywordTok("Order"), KeywordTok("By"),
                     IdentifierTok("name"), KeywordTok("Asc")>>,
        orderby |-> <<UnaryOperation("Asc", IdentifierExpr("name"))>>],
       [tokens |-> <<KeywordTok("Order"), KeywordTok("By"),
                     IdentifierTok("name"), KeywordTok("Desc"),
                     Punct("Comma"), IdentifierTok("id")>>,
        orderby |-> <<UnaryOperation("Desc", IdentifierExpr("name")),
                      IdentifierExpr("id")>>],
       [tokens |-> <<KeywordTok("Order"), KeywordTok("By"),
                     IdentifierTok("id"), Punct("Comma"),
                     IdentifierTok("name")>>,
        orderby |-> <<IdentifierExpr("id"), IdentifierExpr("name")>>],
       [tokens |-> <<KeywordTok("Order"), KeywordTok("By"),
                     IdentifierTok("age"), Punct("Plus"), NumberTok(<<2>>),
                     KeywordTok("Desc")>>,
        orderby |-> <<UnaryOperation("Desc",
                         BinaryOperation(IdentifierExpr("age"), "Plus",
                                         NumberExpr(<<2>>)))>>] >>

\* An ORDER clause without BY.
OrderWithoutBy == <<KeywordTok("Order"), IdentifierTok("name")>>

\* What may follow the FROM clause: WHERE then ORDER BY, or the two in
\* the other order, or ORDER without BY.
Clauses ==
    {WhereTable[w].tokens \o OrderTable[o].tokens :
        w \in DOMAIN WhereTable, o \in DOMAIN OrderTable}
        \cup {OrderTable[o].tokens \o WhereTable[w].tokens :
                 w \in DOMAIN WhereTable, o \in DOMAIN OrderTable}
        \cup {WhereTable[w].tokens \o OrderWithoutBy : w \in DOMAIN WhereTable}

StatementEnds == {<<Punct("Semicolon"), Eof>>, <<Eof>>}

SelectInputs ==
    {<<KeywordTok("Select")>> \o c \o f \o cl \o e :
        c \in ColumnParts, f \in {GoodFrom} \cup BadFroms, cl \in Clauses,
        e \in StatementEnds}

StatementInputs == CreateInputs \cup SelectInputs

\* The state after Parser::new on the text of a statement input.
InitStmt ==
    /\ parserTokens \in StatementInputs
    /\ input = Render(parserTokens)
    /\ pos = Len(input) + 1
    /\ tokens = parserTokens
    /\ lexResult = LexOk(parserTokens)
    /\ result = Pending
    /\ stdin = <<>>
    /\ stdout = NoOutput
    /\ pc = "parser"

NextStmt == Parse

SpecStmt == InitStmt /\ [][NextStmt]_vars

\* The tokens of an expression input are what tokenize returns for its text.
InitExprIsScanned ==
    pc = "parser" => /\ Tokenize(input) = lexResult
                     /\ TokensOrEof(lexResult) = parserTokens

---------------------------------------------------------------------------
(* Words and comparison operators as inputs of the tokenizer.              *)

\* The longest text of comparison characters.
MaxCompare == 3

\* The reserved words, letter by letter, in the order of KeywordTable.
KeywordChars ==
    << <<"s","e","l","e","c","t">>, <<"f","r","o","m">>,
       <<"w","h","e","r","e">>, <<"o","r","d","e","r">>, <<"b","y">>,
       <<"c","r","e","a","t","e">>, <<"t","a","b","l","e">>,
       <<"i","n","t">>, <<"v","a","r","c","h","a","r">>,
       <<"b","o","o","l">>, <<"p","r","i","m","a","r","y">>,
       <<"k","e","y">>, <<"n","o","t">>, <<"n","u","l","l">>,
       <<"c","h","e","c","k">>, <<"t","r","u","e">>,
       <<"f","a","l","s","e">>, <<"a","n","d">>, <<"o","r">>,
       <<"a","s","c">>, <<"d","e","s","c">> >>

UpperChar(c) ==
    IF \E i \in DOMAIN Lower : Lower[i] = c
    THEN Upper[CHOOSE i \in DOMAIN Lower : Lower[i] = c]
    ELSE c

\* A word in lower case, in upper case, and with the two in turn (SeLeCt).
WordCases(w) ==
    {w, [i \in DOMAIN w |-> UpperChar(w[i])],
     [i \in DOMAIN w |-> IF i % 2 = 1 THEN UpperChar(w[i]) ELSE w[i]]}

\* A reserved word in some casing, after nothing, an underscore or a
\* number, with nothing or one more word character after it, and then the
\* end of the text, a blank or an operator.
WordInputs ==
    {lead \o v \o ext \o term :
        lead \in {<<>>, <<"_">>, <<"1", " ">>},
        v \in UNION {WordCases(KeywordChars[k]) : k \in DOMAIN KeywordChars},
        ext \in {<<>>, <<"s">>, <<"_">>, <<"1">>},
        term \in {<<>>, <<" ">>, <<"=">>}}

CompareAlphabet == {">", "<", "!", "=", "a", " "}
CompareInputs == UNION {[1..n -> CompareAlphabet] : n \in 1..MaxCompare}

LexInputs == WordInputs \cup CompareInputs \cup {OverflowText}

InitLex ==
    /\ input \in LexInputs
    /\ pos = 1
    /\ tokens = <<>>
    /\ lexResult = LexPending
    /\ parserTokens = <<>>
    /\ result = Pending
    /\ stdin = <<>>
    /\ stdout = NoOutput
    /\ pc = "scan"

NextLex == Next

SpecLex == InitLex /\ [][NextLex]_vars

---------------------------------------------------------------------------
(* The REPL (main.rs): prompt, read a line, trim it, leave on exit, skip   *)
(* an empty line, else build a Parser on the line, parse, print.           *)

\* The most lines of an input stream.
MaxLines == 2

\* char::is_whitespace, on the characters of the model
TrimSet == Whitespace \cup {"\r"}

RECURSIVE TrimStart(_)
TrimStart(text) ==
    IF text /= <<>> /\ text[1] \in TrimSet THEN TrimStart(Tail(text))
    ELSE text

RECURSIVE TrimEnd(_)
TrimEnd(text) ==
    IF text /= <<>> /\ text[Len(text)] \in TrimSet
    THEN TrimEnd(SubSeq(text, 1, Len(text) - 1))
    ELSE text

\* str::trim
Trim(text) == TrimEnd(TrimStart(text))

\* input.eq_ignore_ascii_case("exit")
IsExit(text) ==
    /\ Len(text) = 4
    /\ [i \in 1..4 |-> LowerChar(text[i])] = <<"e","x","i","t">>

\* The lines of the input streams, each with its newline: exit in three
\* casings, an empty and a blank line, a statement, a line that is no
\* statement, a line that does not tokenize, a number above u64::MAX.
ReplLines ==
    {<<"e","x","i","t","\n">>, <<"E","X","I","T","\r","\n">>,
     <<" ","E","x","i","t"," ","\n">>, <<"\n">>, <<" ","\t","\n">>,
     SelectText \o <<"\n">>, <<"e","x","i","t"," ","a","\n">>,
     <<"#","\n">>, OverflowText \o <<"\n">>}

InputStreams == UNION {[1..n -> ReplLines] : n \in 0..MaxLines}

\* What println! last wrote.
Banner == "SQL Parser CLI. Enter SQL queries"
PromptText == "> "
ExitingText == "Exiting..."
ParsedText == "Parsed Statement: "
ErrorText == "Error: "

\* io::stdin().read_line: the next line, or nothing at the end of the stream
ReadLine == IF stdin = <<>> THEN <<>> ELSE Head(stdin)

\* main, after the banner is printed.
InitRepl ==
    /\ stdin \in InputStreams
    /\ stdout = Banner
    /\ input = <<>>
    /\ pos = 1
    /\ tokens = <<>>
    /\ lexResult = LexPending
    /\ parserTokens = <<>>
    /\ result = Pending
    /\ pc = "prompt"

\* print!("> ") and the flush
ReplPrompt ==
    /\ pc = "prompt"
    /\ stdout' = PromptText
    /\ pc' = "read"
    /\ UNCHANGED <<input, pos, tokens, lexResult, parserTokens, result, stdin>>

\* read_line and trim give exit: print Exiting... and break.
ReplReadExit ==
    /\ pc = "read"
    /\ IsExit(Trim(ReadLine))
    /\ stdin' = IF stdin = <<>> THEN stdin ELSE Tail(stdin)
    /\ stdout' = ExitingText
    /\ pc' = "exited"
    /\ UNCHANGED <<input, pos, tokens, lexResult, parserTokens, result>>

\* read_line and trim give the empty string: continue.
ReplReadEmpty ==
    /\ pc = "read"
    /\ ~IsExit(Trim(ReadLine))
    /\ Trim(ReadLine) = <<>>
    /\ stdin' = IF stdin = <<>> THEN stdin ELSE Tail(stdin)
    /\ pc' = "prompt"
    /\ UNCHANGED <<input, pos, tokens, lexResult, parserTokens, result,
                   stdout>>

\* read_line and trim give a query: Parser::new(input) starts its tokenizer.
ReplReadQuery ==
    /\ pc = "read"
    /\ ~IsExit(Trim(ReadLine))
    /\ Trim(ReadLine) /= <<>>
    /\ stdin' = IF stdin = <<>> THEN stdin ELSE Tail(stdin)
    /\ input' = Trim(ReadLine)
    /\ pos' = 1
    /\ tokens' = <<>>
    /\ lexResult' = LexPending
    /\ parserTokens' = <<>>
    /\ result' = Pending
    /\ pc' = "scan"
    /\ UNCHANGED stdout

\* match parser.parse(): print the statement or the error, loop.
ReplPrint ==
    /\ pc = "parsed"
    /\ stdout' = IF result.ok THEN ParsedText ELSE ErrorText
    /\ pc' = "prompt"
    /\ UNCHANGED <<input, pos, tokens, lexResult, parserTokens, result, stdin>>

NextRepl ==
    \/ ReplPrompt
    \/ ReplReadExit
    \/ ReplReadEmpty
    \/ ReplReadQuery
    \/ TokenizeSkip
    \/ TokenizePush
    \/ TokenizeError
    \/ TokenizePanic
    \/ TokenizeEnd
    \/ ParserNew
    \/ Parse
    \/ ReplPrint

SpecRepl == InitRepl /\ [][NextRepl]_vars

\* The loop runs as long as it can: a process that can take a step takes one.
SpecReplFair == SpecRepl /\ WF_vars(NextRepl)

---------------------------------------------------------------------------
(* The claims.                                                             *)

\* What Parser::new(input).parse() returns for the empty input.
EmptyInputResult == ParseStatement(TokensOrEof(Tokenize(EmptyText)))

\* C1: when tokenization of the input fails, the error parse returns is the
\* wrapped lexical error, distinguishable from the syntax error of parsing
\* the empty input.
C1_LexicalErrorIsSurfaced ==
    (pc = "parsed" /\ lexResult.status = "Err")
        => (~result.ok /\ result.val /= EmptyInputResult.val)

\* C2: for every input whose tokenization fails, parse returns an error and
\* never a Statement: nothing is parsed from the tokens scanned before the
\* lexical error.
C2_LexicalErrorGivesNoStatement ==
    (pc = "parsed" /\ lexResult.status = "Err") => ~result.ok

\* C2's case: tokenization failed after tokens that form a whole statement.
C2_Witness ==
    /\ pc = "parsed"
    /\ lexResult.status = "Err"
    /\ ParseStatement(Append(tokens, Eof)).ok
    /\ ~result.ok

\* A quote at p opens a string literal that no later quote of its kind closes.
UnclosedQuoteAt(text, p) ==
    /\ p <= Len(text)
    /\ text[p] \in Quotes
    /\ \A i \in (p + 1)..Len(text) : text[i] /= text[p]

\* C3: when tokenize comes to a quote that opens a string literal and no
\* matching quote follows before the end of the input, it returns
\* Err(UnterminatedString), whatever follows the opening quote.
C3_UnclosedStringIsAnError ==
    [][(pc = "scan" /\ UnclosedQuoteAt(input, pos))
          => (pc' = "lexed" /\ lexResult' = LexErr(UnterminatedString))]_vars


---------------------------------------------------------------------------
(* Expression inputs, as the claims about expressions read them.           *)

\* The input is SELECT <body> FROM t; (else SELECT x FROM t ORDER BY <body>;).
IsColumnInput ==
    /\ Len(parserTokens) >= 5
    /\ parserTokens[Len(parserTokens) - 3] = KeywordTok("From")

\* The tokens of the expression of an expression input.
Body ==
    IF IsColumnInput
    THEN SubSeq(parserTokens, 2, Len(parserTokens) - 4)
    ELSE SubSeq(parserTokens, Len(OrderByHead) + 1, Len(parserTokens) - 2)

\* The expression parse returned for the body (when result.ok).
ParsedExpression ==
    IF IsColumnInput THEN result.val.columns[1] ELSE result.val.orderby[1]

\* parse returned a statement that holds one expression for the body.
ParsedOne ==
    /\ pc = "parsed"
    /\ result.ok
    /\ result.val.stmt = "Select"
    /\ Len(result.val.columns) = 1
    /\ IsColumnInput \/ Len(result.val.orderby) = 1

\* The expression an operand token stands for.
Leaf(t) ==
    CASE t.type = "Number" -> NumberExpr(t.val)
      [] t.type = "String" -> StringExpr(t.val)
      [] t.type = "Identifier" -> IdentifierExpr(t.val)
      [] t = KeywordTok("True") -> BoolExpr(TRUE)
      [] t = KeywordTok("False") -> BoolExpr(FALSE)

IsOperandToken(t) ==
    \/ t.type \in {"Number", "String", "Identifier"}
    \/ t \in {KeywordTok("True"), KeywordTok("False")}

\* The BinaryOperator a binary operator token stands for.
OperatorNames ==
    [Plus |-> "Plus", Minus |-> "Minus", Star |-> "Multiply",
     Divide |-> "Divide", Equal |-> "Equal", NotEqual |-> "NotEqual",
     GreaterThan |-> "GreaterThan",
     GreaterThanOrEqual |-> "GreaterThanOrEqual", LessThan |-> "LessThan",
     LessThanOrEqual |-> "LessThanOrEqual"]
OperatorOf(t) ==
    IF t.type = "Keyword" THEN t.val ELSE OperatorNames[t.type]

IsBinaryToken(t) ==
    \/ t \in {KeywordTok("And"), KeywordTok("Or")}
    \/ t.type \in DOMAIN OperatorNames

Bin(op, l, r) == BinaryOperation(l, OperatorOf(op), r)

\* The body is  x op1 x ... opn x : operands and binary operators in turn.
IsChain(b) ==
    /\ Len(b) % 2 = 1
    /\ \A i \in DOMAIN b :
          IF i % 2 = 1 THEN IsOperandToken(b[i]) ELSE IsBinaryToken(b[i])

\* The precedence classes of the binary operators, lowest first:
\* OR, AND, equality and comparison, + -, * /.
Class(t) ==
    CASE t = KeywordTok("Or") -> 1
      [] t = KeywordTok("And") -> 2
      [] t.type \in {"Equal", "NotEqual", "GreaterThan",
                     "GreaterThanOrEqual", "LessThan", "LessThanOrEqual"} -> 3
      [] t.type \in {"Plus", "Minus"} -> 4
      [] t.type \in {"Star", "Divide"} -> 5

IsEquality(t) == t.type \in {"Equal", "NotEqual"}
IsComparison(t) ==
    t.type \in {"GreaterThan", "GreaterThanOrEqual", "LessThan",
                "LessThanOrEqual"}

\* C4: a comparison operator binds tighter than an equality operator:
\* a = b > c is Equal(a, GreaterThan(b, c)) and a > b = c is
\* Equal(GreaterThan(a, b), c).
C4_ComparisonBindsTighterThanEquality ==
    (pc = "parsed" /\ IsChain(Body) /\ Len(Body) = 5)
        => LET a == Leaf(Body[1])
               b == Leaf(Body[3])
               c == Leaf(Body[5])
           IN  /\ (IsEquality(Body[2]) /\ IsComparison(Body[4]))
                     => (ParsedOne /\ ParsedExpression
                            = Bin(Body[2], a, Bin(Body[4], b, c)))
               /\ (IsComparison(Body[2]) /\ IsEquality(Body[4]))
                     => (ParsedOne /\ ParsedExpression
                            = Bin(Body[4], Bin(Body[2], a, b), c))

\* C5: of two binary operators of different precedence classes the one of
\* the higher class binds tighter, wherever it stands: a op1 b op2 c is
\* op1(a, op2(b, c)) when op2 is higher and op2(op1(a, b), c) when op1 is.
C5_HigherPrecedenceBindsTighter ==
    (pc = "parsed" /\ IsChain(Body) /\ Len(Body) = 5
        /\ Class(Body[2]) /= Class(Body[4]))
        => LET a == Leaf(Body[1])
               b == Leaf(Body[3])
               c == Leaf(Body[5])
           IN  /\ ParsedOne
               /\ ParsedExpression =
                    IF Class(Body[4]) > Class(Body[2])
                    THEN Bin(Body[2], a, Bin(Body[4], b, c))
                    ELSE Bin(Body[4], Bin(Body[2], a, b), c)

\* C5's case: a + 2 * c has been parsed as Plus(a, Multiply(2, c)).
C5_Witness ==
    /\ ParsedOne
    /\ Body = <<Operand(1), Punct("Plus"), Operand(2), Punct("Star"),
                Operand(3)>>
    /\ ParsedExpression
          = Bin(Punct("Plus"), Leaf(Operand(1)),
                Bin(Punct("Star"), Leaf(Operand(2)), Leaf(Operand(3))))

RECURSIVE LeftFold(_, _, _)
\* ((x1 op1 x2) op2 x3) ... of a chain b, from its operator at i on.
LeftFold(b, i, left) ==
    IF i > Len(b) THEN left
    ELSE LeftFold(b, i + 2, Bin(b[i], left, Leaf(b[i + 1])))

\* C6: binary operators of equal precedence associate left to right, in
\* chains of any length: 1 - 2 - 3 is Minus(Minus(1, 2), 3).
C6_EqualPrecedenceAssociatesLeft ==
    (pc = "parsed" /\ IsChain(Body) /\ Len(Body) >= 3
        /\ \A i, j \in DOMAIN Body :
              (i % 2 = 0 /\ j % 2 = 0) => Class(Body[i]) = Class(Body[j]))
        => (ParsedOne /\ ParsedExpression = LeftFold(Body, 2, Leaf(Body[1])))

\* C6's case: a - 2 + c - 4 has been parsed as ((a - 2) + c) - 4.
C6_Witness ==
    /\ ParsedOne
    /\ Body = <<Operand(1), Punct("Minus"), Operand(2), Punct("Plus"),
                Operand(3), Punct("Minus"), Operand(4)>>
    /\ ParsedExpression
          = Bin(Punct("Minus"),
                Bin(Punct("Plus"),
                    Bin(Punct("Minus"), Leaf(Operand(1)), Leaf(Operand(2))),
                    Leaf(Operand(3))),
                Leaf(Operand(4)))

IsOrdering(t) == t \in {KeywordTok("Asc"), KeywordTok("Desc")}
IsUnaryToken(t) ==
    t \in {Punct("Plus"), Punct("Minus"), KeywordTok("Not")}
IsParenthesis(t) ==
    t \in {Punct("LeftParentheses"), Punct("RightParentheses")}

\* The UnaryOperator a prefix or ordering token stands for.
UnaryOf(t) == IF t.type = "Keyword" THEN t.val ELSE t.type

\* The tokens of the body before its last one.
Front(b) == SubSeq(b, 1, Len(b) - 1)

\* The body is a complete expression with no ASC / DESC in it, then one
\* ASC or DESC.
IsOrderedExpression(b) ==
    /\ Len(b) >= 2
    /\ IsOrdering(b[Len(b)])
    /\ \A i \in 1..(Len(b) - 1) : ~IsOrdering(b[i])
    /\ LET e == ParseExpression(Append(Front(b), Eof), 1, 0)
       IN  e.ok /\ e.pos = Len(b)

\* C7: an expression immediately followed by ASC or DESC is wrapped as a
\* whole in a unary Asc / Desc node: a + b DESC is Desc(Plus(a, b)) and
\* -a ASC is Asc(Minus(a)).
C7_OrderingWrapsTheWholeExpression ==
    (pc = "parsed" /\ IsOrderedExpression(Body))
        => /\ ParsedOne
           /\ ParsedExpression
                 = UnaryOperation(UnaryOf(Body[Len(Body)]),
                      ParseExpression(Append(Front(Body), Eof), 1, 0).val)

RECURSIVE PrefixOperandsAreTerms(_)
\* No unary '+', '-' or NOT of the expression has a binary operation as
\* its operand.
PrefixOperandsAreTerms(e) ==
    CASE e.kind = "BinaryOperation" ->
            /\ PrefixOperandsAreTerms(e.left_operand)
            /\ PrefixOperandsAreTerms(e.right_operand)
      [] e.kind = "UnaryOperation" ->
            /\ e.operator \in {"Plus", "Minus", "Not"}
                  => e.operand.kind /= "BinaryOperation"
            /\ PrefixOperandsAreTerms(e.operand)
      [] OTHER -> TRUE

\* C8: a unary prefix operator (+, -, NOT) binds tighter than every binary
\* operator: without parentheses its operand is never a binary operation,
\* u x op y is op(u(x), y), and u1 u2 x is u1(u2(x)).
C8_UnaryBindsTighterThanBinary ==
    pc = "parsed" =>
        /\ (result.ok /\ \A i \in DOMAIN Body : ~IsParenthesis(Body[i]))
              => PrefixOperandsAreTerms(ParsedExpression)
        /\ (Len(Body) = 4 /\ IsUnaryToken(Body[1]) /\ IsOperandToken(Body[2])
              /\ IsBinaryToken(Body[3]) /\ IsOperandToken(Body[4]))
              => /\ ParsedOne
                 /\ ParsedExpression
                       = Bin(Body[3],
                             UnaryOperation(UnaryOf(Body[1]), Leaf(Body[2])),
                             Leaf(Body[4]))
        /\ (Len(Body) = 3 /\ IsUnaryToken(Body[1]) /\ IsUnaryToken(Body[2])
              /\ IsOperandToken(Body[3]))
              => /\ ParsedOne
                 /\ ParsedExpression
                       = UnaryOperation(UnaryOf(Body[1]),
                            UnaryOperation(UnaryOf(Body[2]), Leaf(Body[3])))

\* C8's case: - a + 2 has been parsed as Plus(Minus(a), 2).
C8_Witness ==
    /\ ParsedOne
    /\ Body = <<Punct("Minus"), Operand(1), Punct("Plus"), Operand(2)>>
    /\ ParsedExpression
          = Bin(Punct("Plus"), UnaryOperation("Minus", Leaf(Operand(1))),
                Leaf(Operand(2)))

BareSelect(e) == Select(<<e>>, "", None, <<>>)
Num(d) == NumberExpr(<<d>>)

\* C10: parse accepts a bare expression terminated by ';', with no SELECT
\* keyword, and returns Select{columns: [expr], from: "", where: None,
\* orderby: []}: so for 1 + 2 * 3; and (1 + 2) * 3; and -5 + 6;.
C10_BareExpressionIsASelect ==
    pc = "parsed" =>
        /\ input = PrecedenceText
              => (result.ok /\ result.val
                    = BareSelect(BinaryOperation(Num(1), "Plus",
                         BinaryOperation(Num(2), "Multiply", Num(3)))))
        /\ input = ParenthesesText
              => (result.ok /\ result.val
                    = BareSelect(BinaryOperation(
                         BinaryOperation(Num(1), "Plus", Num(2)),
                         "Multiply", Num(3))))
        /\ input = UnaryText
              => (result.ok /\ result.val
                    = BareSelect(BinaryOperation(
                         UnaryOperation("Minus", Num(5)), "Plus", Num(6))))

\* The failed rule stood at the end of the input: at Eof, or past it.
FailedAtEnd ==
    /\ pc = "parsed"
    /\ ~result.ok
    /\ CurrentToken(parserTokens, result.pos) \in {Eof, NoToken}

\* C11: when a rule expects a token and the input is exhausted (the input
\* with no tokens at all included), the error is UnexpectedEnd, a kind
\* other than UnexpectedToken.
C11_ExhaustedInputIsUnexpectedEnd ==
    FailedAtEnd => (result.val.err = "UnexpectedEnd"
                    /\ result.val.err /= "UnexpectedToken")

\* The digits of the maximal run of digits that starts at p.
DigitRun(text, p) ==
    [i \in 1..(DigitRunEnd(text, p) - p) |-> DigitValue(text[p + i - 1])]

\* The scanner stands before a run of digits whose value is above u64::MAX.
AtOverflowingNumber ==
    /\ pc = "scan"
    /\ pos <= Len(input)
    /\ IsDigit(input[pos])
    /\ ~NumLeq(StripZeros(DigitRun(input, pos)), U64MaxDigits)

\* C12: a run of digits whose value exceeds the unsigned 64-bit range makes
\* tokenize return the error InvalidNumber: no token is pushed for it and
\* the program does not abort.
C12_OverflowIsAnErrorValue ==
    [][AtOverflowingNumber
          => (pc' = "lexed" /\ lexResult'.status = "Err"
              /\ lexResult'.err.err = "InvalidNumber")]_vars

\* C13: when tokenize succeeds, the sequence it returns ends with exactly
\* one Eof: its last element is Eof and no earlier element is.
C13_ExactlyOneEof ==
    lexResult.status = "Ok"
        => /\ Len(lexResult.tokens) >= 1
           /\ lexResult.tokens[Len(lexResult.tokens)] = Eof
           /\ \A i \in 1..(Len(lexResult.tokens) - 1) :
                 lexResult.tokens[i] /= Eof

\* C13's case: tokenize has returned Ok with tokens before the final Eof.
C13_Witness ==
    /\ pc = "lexed"
    /\ lexResult.status = "Ok"
    /\ Len(lexResult.tokens) >= 5
    /\ lexResult.tokens[Len(lexResult.tokens)] = Eof

\* The well-formed definitions of the first column.
ValidFirstColumns ==
    {<<ColumnName(1)>> \o t \o c : t \in ValidTypes, c \in ConstraintFragments}

\* The input is CREATE TABLE users ( <column> <rest> ..., where the column
\* is the first one or follows a well-formed first one.
InColumn(rest) ==
    \/ IsPrefix(CreateHead \o <<ColumnName(1)>> \o rest, parserTokens)
    \/ \E first \in ValidFirstColumns :
          IsPrefix(CreateHead \o first \o <<Punct("Comma"), ColumnName(2)>>
                       \o rest, parserTokens)

\* CREATE TABLE users (id VARCHAR(n));
OneVarcharColumn(n) ==
    CreateHead \o <<ColumnName(1)>> \o VarcharOf(n) \o CreateEnd

\* C14: every Varchar(n) of a statement parse returns has 1 <= n <= 65535:
\* VARCHAR(0), VARCHAR(65536) and larger lengths fail with
\* InvalidVarcharLength, VARCHAR(1) and VARCHAR(65535) succeed.
C14_VarcharLengthIsInRange ==
    pc = "parsed" =>
        /\ (result.ok /\ result.val.stmt = "CreateTable")
              => \A i \in DOMAIN result.val.column_list :
                    result.val.column_list[i].column_type.type = "Varchar"
                       => result.val.column_list[i].column_type.len
                             \in InRangeLengths
        /\ \A n \in OutOfRangeLengths :
              InColumn(SubSeq(VarcharOf(n), 1, 3))
                 => (~result.ok /\ result.val = InvalidVarcharLength)
        /\ \A n \in InRangeLengths :
              parserTokens = OneVarcharColumn(n)
                 => (result.ok /\ result.val
                       = CreateTable("users",
                            <<TableColumn("id", DBVarchar(n), <<>>)>>))

\* C14's case: CREATE TABLE users (id VARCHAR(65535)); has been parsed.
C14_Witness ==
    /\ pc = "parsed"
    /\ parserTokens = OneVarcharColumn(<<6,5,5,3,5>>)
    /\ result.ok
    /\ result.val.column_list[1].column_type = DBVarchar(<<6,5,5,3,5>>)

\* C15: in a column definition any token in type position other than INT,
\* BOOL or VARCHAR makes parse fail with InvalidColumnType; no statement
\* is returned.
C15_InvalidColumnType ==
    pc = "parsed" =>
        \A bad \in InvalidTypeTokens :
            InColumn(<<bad>>)
               => (~result.ok /\ result.val = InvalidColumnType)

\* C15's case: CREATE TABLE users (id INVALID); has failed with
\* InvalidColumnType.
C15_Witness ==
    /\ pc = "parsed"
    /\ parserTokens = CreateHead \o <<IdentifierTok("id"),
                                      IdentifierTok("INVALID")>> \o CreateEnd
    /\ ~result.ok
    /\ result.val = InvalidColumnType

SelectTok == <<KeywordTok("Select")>>
Terminated == <<Punct("Semicolon"), Eof>>

\* C16: for SELECT e1, ..., en FROM t; with n >= 1, parse returns a Select
\* whose columns are e1..en in source order, from = t, where = None and
\* orderby = [].
C16_SelectColumnsInOrder ==
    pc = "parsed" =>
        \A l \in SelectLists :
            parserTokens = SelectTok \o ListTokens(l) \o GoodFrom \o Terminated
               => result = POk(Select(ListExprs(l), "users", None, <<>>),
                               Len(parserTokens))

\* C16's case: SELECT id, name FROM users; has been parsed.
C16_Witness ==
    /\ pc = "parsed"
    /\ parserTokens = SelectTok \o ListTokens(<<1, 2>>) \o GoodFrom
                         \o Terminated
    /\ result.ok
    /\ result.val.columns = <<IdentifierExpr("id"), IdentifierExpr("name")>>

\* C17: in a successful SELECT, where is Some(e) exactly when a WHERE
\* clause with predicate e is written, orderby lists the ORDER BY keys in
\* source order, k ASC and k DESC as Unary(Asc, k) and Unary(Desc, k);
\* ORDER BY before WHERE is an error.
C17_WhereAndOrderBy ==
    pc = "parsed" =>
        \A l \in SelectLists, w \in DOMAIN WhereTable,
           o \in DOMAIN OrderTable :
            /\ parserTokens = SelectTok \o ListTokens(l) \o GoodFrom
                                 \o WhereTable[w].tokens
                                 \o OrderTable[o].tokens \o Terminated
                  => /\ result.ok
                     /\ result.val.stmt = "Select"
                     /\ result.val.where = WhereTable[w].where
                     /\ result.val.orderby = OrderTable[o].orderby
            /\ (/\ WhereTable[w].tokens /= <<>>
                /\ OrderTable[o].tokens /= <<>>
                /\ parserTokens = SelectTok \o ListTokens(l) \o GoodFrom
                                     \o OrderTable[o].tokens
                                     \o WhereTable[w].tokens \o Terminated)
                  => ~result.ok

\* The statement with a column x in the place of the '*'.
WithColumnForStar ==
    ParseStatement(<<KeywordTok("Select"), IdentifierTok("x")>>
                      \o SubSeq(parserTokens, 3, Len(parserTokens)))

\* C18: when the token after SELECT is '*', parse returns SelectAll with
\* the table, the WHERE predicate and the ORDER BY keys parsed as for a
\* column-list SELECT; '*' followed by anything but FROM is an
\* UnexpectedToken error.
C18_SelectStar ==
    (pc = "parsed" /\ Len(parserTokens) >= 3
        /\ parserTokens[1] = KeywordTok("Select")
        /\ parserTokens[2] = Punct("Star"))
        => IF parserTokens[3] /= KeywordTok("From")
           THEN result = PErr(UnexpectedToken(parserTokens[3]), 3)
           ELSE IF WithColumnForStar.ok
           THEN result = POk(SelectAll(WithColumnForStar.val.from,
                                       WithColumnForStar.val.where,
                                       WithColumnForStar.val.orderby),
                             WithColumnForStar.pos)
           ELSE result = WithColumnForStar

\* C18's case: SELECT * FROM users WHERE age > 18; has been parsed.
C18_Witness ==
    /\ pc = "parsed"
    /\ parserTokens = SelectTok \o <<Punct("Star")>> \o GoodFrom
                         \o WhereTable[2].tokens \o Terminated
    /\ result.ok
    /\ result.val = SelectAll("users", WhereTable[2].where, <<>>)

\* The input is SELECT <list> and then neither a comma nor FROM and a
\* table identifier.
ListWithoutFrom(l) ==
    LET k == 1 + Len(ListTokens(l))
    IN  /\ IsPrefix(SelectTok \o ListTokens(l), parserTokens)
        /\ parserTokens[k + 1] /= Punct("Comma")
        /\ ~(/\ parserTokens[k + 1] = KeywordTok("From")
             /\ k + 2 <= Len(parserTokens)
             /\ parserTokens[k + 2].type = "Identifier")

\* C19: a SELECT whose column list is not followed by FROM and a table
\* identifier fails: parse returns no statement for it.
C19_SelectNeedsFrom ==
    pc = "parsed" =>
        \A l \in SelectLists : ListWithoutFrom(l) => ~result.ok

\* C19's case: SELECT name; has failed at the ';'.
C19_Witness ==
    /\ pc = "parsed"
    /\ parserTokens = SelectTok \o <<IdentifierTok("name")>> \o Terminated
    /\ result = PErr(UnexpectedToken(Punct("Semicolon")), 3)

\* C20: every Select parse returns has at least one column: SELECT FROM t;
\* fails with UnexpectedToken(FROM), and a comma right before FROM
\* (SELECT a, FROM t;) fails too.
C20_SelectHasColumns ==
    pc = "parsed" =>
        /\ (result.ok /\ result.val.stmt = "Select")
              => Len(result.val.columns) >= 1
        /\ IsPrefix(<<KeywordTok("Select"), KeywordTok("From")>>,
                    parserTokens)
              => (~result.ok
                  /\ result.val = UnexpectedToken(KeywordTok("From")))
        /\ \A l \in SelectLists :
              IsPrefix(SelectTok \o ListTokens(l)
                          \o <<Punct("Comma"), KeywordTok("From")>>,
                       parserTokens)
                 => ~result.ok

\* C20's case: SELECT id, FROM users; has failed at FROM.
C20_Witness ==
    /\ pc = "parsed"
    /\ parserTokens = SelectTok \o <<IdentifierTok("id"), Punct("Comma")>>
                         \o GoodFrom \o Terminated
    /\ result = PErr(UnexpectedToken(KeywordTok("From")), 4)

\* The column k with the type and the constraints of the tables.
ColumnTokens(k, t, c) ==
    <<ColumnName(k)>> \o TypeTable[t].tokens \o ConstraintTable[c].tokens
ColumnValue(k, t, c) ==
    TableColumn(ColumnName(k).val, TypeTable[t].type,
                ConstraintTable[c].constraints)

\* C21: for a valid CREATE TABLE statement parse returns CreateTable with
\* the columns in source order, each with its declared type and with its
\* constraints in the order written: PRIMARY KEY as PrimaryKey, NOT NULL as
\* NotNull, CHECK (e) as Check(e); the constraints of a column end at the
\* first token that is not PRIMARY, NOT or CHECK.
C21_CreateTableColumns ==
    pc = "parsed" =>
        \A t1 \in DOMAIN TypeTable, c1 \in DOMAIN ConstraintTable :
            /\ parserTokens = CreateHead \o ColumnTokens(1, t1, c1)
                                 \o CreateEnd
                  => result = POk(CreateTable("users",
                                      <<ColumnValue(1, t1, c1)>>),
                                  Len(parserTokens))
            /\ \A t2 \in DOMAIN TypeTable, c2 \in DOMAIN ConstraintTable :
                  parserTokens = CreateHead \o ColumnTokens(1, t1, c1)
                                    \o <<Punct("Comma")>>
                                    \o ColumnTokens(2, t2, c2) \o CreateEnd
                     => result = POk(CreateTable("users",
                                         <<ColumnValue(1, t1, c1),
                                           ColumnValue(2, t2, c2)>>),
                                     Len(parserTokens))

\* C21's case: CREATE TABLE users (id VARCHAR(50) CHECK (age > 0) NOT NULL,
\* name INT PRIMARY KEY); has been parsed.
C21_Witness ==
    /\ pc = "parsed"
    /\ parserTokens = CreateHead \o ColumnTokens(1, 4, 7)
                         \o <<Punct("Comma")>> \o ColumnTokens(2, 1, 2)
                         \o CreateEnd
    /\ result.ok
    /\ result.val.column_list
          = <<TableColumn("id", DBVarchar(<<5,0>>),
                          <<CheckAgePositive, NotNull>>),
              TableColumn("name", DBInt, <<PrimaryKey>>)>>

\* What parse returns for a text on its own.
ParseText(text) == ParseStatement(TokensOrEof(Tokenize(text)))

\* C22: text after the terminating ';' of the first complete statement
\* does not affect the result: for every input S that parses successfully
\* and every suffix X, parse of S followed by X returns the Statement that
\* parse of S returns.
C22_TextAfterStatementIsIgnored ==
    pc = "parsed" =>
        \A S \in Prefixes :
            (IsPrefix(S, input) /\ ParseText(S).ok)
                => (result.ok /\ result.val = ParseText(S).val)

---------------------------------------------------------------------------
(* Display (statement.rs): the text a value is written as.                 *)

\* The characters of an identifier and of the content of a string literal.
IdentifierChars(name) == TextOf(IdentifierTok(name))
StringChars(string) ==
    SubSeq(TextOf(StringTok(string)), 2, Len(TextOf(StringTok(string))) - 1)

\* u64's Display: the decimal digits.
ShowNumber(n) == [i \in 1..Len(n) |-> DigitChars[n[i] + 1]]

\* bool's Display
ShowBool(b) == IF b THEN <<"t","r","u","e">> ELSE <<"f","a","l","s","e">>

\* impl Display for BinaryOperator: the text of the operator's token.
ShowBinaryOperator(op) ==
    TextOf(InfixTable[CHOOSE i \in DOMAIN InfixTable :
                          InfixTable[i][2] = op][1])

\* impl Display for UnaryOperator
ShowUnaryOperator(op) ==
    CASE op = "Plus" -> <<"+">>
      [] op = "Minus" -> <<"-">>
      [] op = "Not" -> <<"N","O","T">>
      [] op = "Asc" -> <<"A","S","C">>
      [] op = "Desc" -> <<"D","E","S","C">>

RECURSIVE ShowExpression(_)
\* impl Display for Expression
ShowExpression(e) ==
    CASE e.kind = "Number" -> ShowNumber(e.val)
      [] e.kind = "String" -> <<"\"">> \o StringChars(e.val) \o <<"\"">>
      [] e.kind = "Bool" -> ShowBool(e.val)
      [] e.kind = "Identifier" -> IdentifierChars(e.val)
      [] e.kind = "BinaryOperation" ->
            <<"(">> \o ShowExpression(e.left_operand) \o <<" ">>
                \o ShowBinaryOperator(e.operator) \o <<" ">>
                \o ShowExpression(e.right_operand) \o <<")">>
      [] e.kind = "UnaryOperation" ->
            ShowUnaryOperator(e.operator) \o <<" ">>
                \o ShowExpression(e.operand)

\* impl Display for DBType
ShowDBType(t) ==
    CASE t.type = "Int" -> <<"I","N","T">>
      [] t.type = "Bool" -> <<"B","O","O","L">>
      [] t.type = "Varchar" ->
            <<"V","A","R","C","H","A","R","(">> \o ShowNumber(t.len)
                \o <<")">>

\* impl Display for Constraint
ShowConstraint(c) ==
    CASE c.constraint = "PrimaryKey" ->
            <<"P","R","I","M","A","R","Y"," ","K","E","Y">>
      [] c.constraint = "NotNull" -> <<"N","O","T"," ","N","U","L","L">>
      [] c.constraint = "Check" ->
            <<"C","H","E","C","K"," ","(">> \o ShowExpression(c.expr)
                \o <<")">>

RECURSIVE ShowConstraints(_)
\* for constraint in &self.constraints { write!(f, " {}", constraint) }
ShowConstraints(cs) ==
    IF cs = <<>> THEN <<>>
    ELSE <<" ">> \o ShowConstraint(cs[1]) \o ShowConstraints(Tail(cs))

\* impl Display for TableColumn
ShowTableColumn(col) ==
    IdentifierChars(col.column_name) \o <<" ">>
        \o ShowDBType(col.column_type) \o ShowConstraints(col.constraints)

RECURSIVE ShowList(_)
\* The loops that write the items of a list with ", " between.
ShowList(texts) ==
    IF texts = <<>> THEN <<>>
    ELSE IF Len(texts) = 1 THEN texts[1]
    ELSE texts[1] \o <<",", " ">> \o ShowList(Tail(texts))

ShowExpressions(es) == ShowList([i \in DOMAIN es |-> ShowExpression(es[i])])

\* The part of a SELECT from FROM on.
ShowFrom(s) ==
    <<" ","F","R","O","M"," ">> \o IdentifierChars(s.from)
        \o (IF s.where.some
            THEN <<" ","W","H","E","R","E"," ">> \o ShowExpression(s.where.val)
            ELSE <<>>)
        \o (IF s.orderby /= <<>>
            THEN <<" ","O","R","D","E","R"," ","B","Y"," ">>
                     \o ShowExpressions(s.orderby)
            ELSE <<>>)

\* impl Display for Statement
ShowStatement(s) ==
    CASE s.stmt = "Select" ->
            <<"S","E","L","E","C","T"," ">> \o ShowExpressions(s.columns)
                \o ShowFrom(s)
      [] s.stmt = "SelectAll" ->
            <<"S","E","L","E","C","T"," ","*">> \o ShowFrom(s)
      [] s.stmt = "CreateTable" ->
            <<"C","R","E","A","T","E"," ","T","A","B","L","E"," ">>
                \o IdentifierChars(s.table_name) \o <<" ","(">>
                \o ShowList([i \in DOMAIN s.column_list |->
                                ShowTableColumn(s.column_list[i])])
                \o <<")">>

\* C23: round trip: for every Statement s a successful parse returns,
\* parsing the text s is displayed as succeeds and yields a Statement
\* equal to s.
C23_DisplayRoundTrip ==
    (pc = "parsed" /\ result.ok)
        => /\ ParseText(ShowStatement(result.val)).ok
           /\ ParseText(ShowStatement(result.val)).val = result.val

\* C24: in the REPL no input line terminates the process abnormally: for
\* every non-empty, non-exit line the loop prints the parsed statement or
\* an error and then prompts again, also for a line with a lexical error
\* such as an over-long digit run.
C24_EveryLineIsAnswered ==
    (pc = "scan") ~> (pc = "prompt" /\ stdout \in {ParsedText, ErrorText})

\* The loop of main has ended: by its break, or by a panic.
LoopEnded(at) == at \in {"exited", "panicked"}

\* C25: the REPL loop ends exactly when a line equal to exit in any letter
\* case, after trimming, is read, and the parser is not invoked on it; an
\* empty or blank line, the zero-byte read at the end of the stream
\* included, never invokes the parser and leads to another prompt; so
\* without an exit line the loop never ends.
C25_LoopEndsByExitAlone ==
    [][/\ (pc = "read" /\ IsExit(Trim(ReadLine)))
             => (pc' = "exited" /\ result' = result)
       /\ (pc = "read" /\ Trim(ReadLine) = <<>>)
             => (pc' = "prompt" /\ result' = result)
       /\ (LoopEnded(pc') /\ ~LoopEnded(pc))
             => (pc = "read" /\ IsExit(Trim(ReadLine)))]_vars

\* Parser::new and parse run to their end: a call that can take a step
\* takes one.
SpecFair == Spec /\ WF_vars(Next)

\* Every iteration of the scanner's loop consumes at least one character,
\* and the position never moves backwards.
ScannerConsumes ==
    [][pc = "scan" => (pos' >= pos /\ (pos <= Len(input) => pos' > pos))]_vars

\* No rule leaves the token cursor before the token it started at, and
\* parse leaves it on a token it was given.
CursorMovesForward ==
    pc = "parsed" =>
        /\ result.pos \in 1..Len(parserTokens)
        /\ \A p \in 1..Len(parserTokens) :
              /\ ParseExpression(parserTokens, p, 0).pos >= p
              /\ ParseConstraints(parserTokens, p, <<>>).pos >= p
              /\ ParseExpression(parserTokens, p, 0).ok
                    => ParseExpression(parserTokens, p, 0).pos > p

\* C26: scanning and parsing are strictly consuming and always terminate:
\* for every finite input both tokenize and parse return.
C26_ScanAndParseReturn == <>(pc = "parsed")

\* The characters of a word, and the end of the maximal run of them that
\* starts at p.
WordChars == Letters \cup Digits \cup {"_"}
WordEnd(text, p) ==
    CHOOSE e \in p..(Len(text) + 1) :
        /\ \A i \in p..(e - 1) : text[i] \in WordChars
        /\ e = Len(text) + 1 \/ text[e] \notin WordChars

\* The case-folded text of text[p .. e-1].
Folded(text, p, e) == [i \in 1..(e - p) |-> LowerChar(text[p + i - 1])]

IsReserved(word) == \E k \in DOMAIN KeywordChars : KeywordChars[k] = word
ReservedWord(word) ==
    KeywordTable[CHOOSE k \in DOMAIN KeywordChars :
                     KeywordChars[k] = word][2]

\* C27: a maximal run of letters, digits and underscores that starts with
\* a letter or an underscore yields a Keyword token exactly when its
\* case-folded text is one of the 21 reserved words, in any letter case;
\* otherwise it yields an Identifier token with the text as written.
C27_KeywordsInAnyCase ==
    [][(pc = "scan" /\ pos <= Len(input) /\ input[pos] \in IdentStart)
          => /\ pos' = WordEnd(input, pos)
             /\ tokens' = Append(tokens,
                   IF IsReserved(Folded(input, pos, WordEnd(input, pos)))
                   THEN KeywordTok(ReservedWord(
                            Folded(input, pos, WordEnd(input, pos))))
                   ELSE IdentifierTok(
                            Concat(input, pos, WordEnd(input, pos))))]_vars

\* C27's case: SeLeCt has been scanned as the keyword SELECT, and the 21
\* reserved words are those of the tokenizer's table.
C27_Witness ==
    /\ input = <<"S","e","L","e","C","t">>
    /\ tokens = <<KeywordTok("Select")>>
    /\ Len(KeywordChars) = 21
    /\ \A k \in DOMAIN KeywordChars :
          Concat(KeywordChars[k], 1, Len(KeywordChars[k]) + 1)
             = KeywordTable[k][1]

\* The scanner stands at the character c, and `next` follows it.
ScanningAt(c) == pc = "scan" /\ pos <= Len(input) /\ input[pos] = c
FollowedByEqual == PeekAt(input, pos + 1) = "="
Pushes(t, n) == tokens' = Append(tokens, t) /\ pos' = pos + n /\ pc' = "scan"

\* C28: maximal munch with one character of lookahead: '>', '<' or '!'
\* followed at once by '=' yields the one token >=, <= or != and consumes
\* both characters; '>' or '<' not followed by '=' yields the
\* one-character token and leaves the next character; '!' not followed by
\* '=' makes tokenize fail with UnexpectedChar('!'); '=' always yields
\* Equal.
C28_MaximalMunch ==
    [][/\ (ScanningAt(">") /\ FollowedByEqual)
             => Pushes(Punct("GreaterThanOrEqual"), 2)
       /\ (ScanningAt("<") /\ FollowedByEqual)
             => Pushes(Punct("LessThanOrEqual"), 2)
       /\ (ScanningAt("!") /\ FollowedByEqual)
             => Pushes(Punct("NotEqual"), 2)
       /\ (ScanningAt(">") /\ ~FollowedByEqual)
             => Pushes(Punct("GreaterThan"), 1)
       /\ (ScanningAt("<") /\ ~FollowedByEqual)
             => Pushes(Punct("LessThan"), 1)
       /\ (ScanningAt("!") /\ ~FollowedByEqual)
             => (pc' = "lexed" /\ lexResult' = LexErr(UnexpectedChar("!")))
       /\ ScanningAt("=") => Pushes(Punct("Equal"), 1)]_vars

\* C28's case: ">==" has been scanned as >= and =.
C28_Witness ==
    /\ input = <<">", "=", "=">>
    /\ lexResult = LexOk(<<Punct("GreaterThanOrEqual"), Punct("Equal"), Eof>>)

\* The quote at p opens a string literal that a later quote of its kind
\* closes; the first such quote is the matching one.
ClosedQuoteAt(text, p) ==
    /\ p <= Len(text)
    /\ text[p] \in Quotes
    /\ \E j \in (p + 1)..Len(text) : text[j] = text[p]
MatchingQuote(text, p) ==
    CHOOSE j \in (p + 1)..Len(text) :
        /\ text[j] = text[p]
        /\ \A i \in (p + 1)..(j - 1) : text[i] /= text[p]

\* C29: a string literal that is closed by its matching quote yields one
\* String token holding exactly the characters between the quotes, at
\* every position of the input and for every content, the empty literal
\* and a literal whose closing quote ends the input included.
C29_ClosedStringIsAToken ==
    [][(pc = "scan" /\ ClosedQuoteAt(input, pos))
          => /\ tokens' = Append(tokens,
                   StringTok(Concat(input, pos + 1,
                                    MatchingQuote(input, pos))))
             /\ pos' = MatchingQuote(input, pos) + 1
             /\ pc' = "scan"]_vars

\* The tokens the rules pass to expect_token.
ExpectedTokens ==
    {KeywordTok("From"), KeywordTok("By"), KeywordTok("Table"),
     KeywordTok("Key"), KeywordTok("Null"), Punct("LeftParentheses"),
     Punct("RightParentheses")}

\* C30: expect consumes exactly one token when the current token equals
\* the expected one; on a mismatch it leaves the cursor where it is and
\* fails with UnexpectedToken carrying the current token; Eof is never an
\* expected token, so the cursor never goes past the Eof marker and the
\* current token is never absent during a parse.
C30_ExpectConsumesOneToken ==
    pc = "parsed" =>
        /\ \A p \in 1..Len(parserTokens), expected \in ExpectedTokens :
              IF parserTokens[p] = expected
              THEN ExpectToken(parserTokens, p, expected) = POk(TRUE, p + 1)
              ELSE ExpectToken(parserTokens, p, expected)
                      = PErr(UnexpectedToken(parserTokens[p]), p)
        /\ Eof \notin ExpectedTokens
        /\ result.pos <= Len(parserTokens)
        /\ CurrentToken(parserTokens, result.pos) /= NoToken

\* C30's case: in SELECT id FROM users; the FROM was expected and consumed,
\* and the parse has ended with the cursor on the Eof marker.
C30_Witness ==
    /\ pc = "parsed"
    /\ parserTokens = SelectTok \o <<IdentifierTok("id")>> \o GoodFrom
                         \o Terminated
    /\ ExpectToken(parserTokens, 3, KeywordTok("From")) = POk(TRUE, 4)
    /\ result.ok
    /\ parserTokens[result.pos] = Eof

=============================================================================
